---------------------------- MODULE Spec2Model ----------------------------
(***************************************************************************)
(* A model of qdtsne: the affinity builder (Tsne::initialize, the row      *)
(* probabilities, both symmetrize_matrix functions) and the iteration      *)
(* loop (Tsne::run, Tsne::iterate, compute_gradient, compute_edge_forces), *)
(* followed by the SPTree, the interpolator, the parallel repulsion stage, *)
(* the bandwidth search of one row, the two parallel force stages, the     *)
(* parameters and their setters, and the lattice hash of the interpolator. *)
(*                                                                         *)
(* Points are numbered 1..N (the code numbers them 0..N-1); position k of  *)
(* a row is the code's k-1.  Probabilities are exact rationals <<n, d>>,   *)
(* with <<0, 0>> standing for NaN.  Coordinates, forces, velocities and    *)
(* gains of the iteration loop are fixed-point numbers, Unit to 1.0.       *)
(***************************************************************************)
EXTENDS Integers, Sequences, FiniteSets, TLC

VARIABLES
    input,      \* the arguments of the current initialize / symmetrize call
    phase,      \* "start", "initialized", "symmetrized" or "failed"
    error,      \* message of the exception thrown, "none" otherwise
    status,     \* the Tsne::Status object
    x,          \* the NeighborList handed to qdtsne::symmetrize_matrix
    mass,       \* history: total probability before and after the merge/append step
    cfg,        \* the parameters of the Tsne object
    Y,          \* the embedding, N * ndim coordinates
    frame,      \* the activation of Tsne::run: its place and its locals
    entry,      \* history: iter, Y and the Status when run was entered
    used,       \* history: the iterate calls so far and the last one's arguments
    oracle,     \* the repulsive forces the tree returned last, and the changes left
    tree,       \* the SPTree: its points, node store, locations and last answer
    interp,     \* the activation of interpolate::compute_non_edge_forces and its outcome
    reduction,  \* the parallel repulsion stage: worker positions, omp_buffer and the sum
    search,     \* the bandwidth search of one row in compute_gaussian_perplexity
    stage,      \* the two parallel force stages of compute_gradient and what each worker touched
    tsne,       \* a Tsne object: its parameters and the setter called last
    codec       \* two lattice index vectors, their hashes and the first one unhashed

vars == <<input, phase, error, status, x, mass, cfg, Y, frame, entry, used, oracle, tree, interp, reduction, search, stage, tsne, codec>>

(***************************************************************************)
(* Bounds of the model.                                                    *)
(***************************************************************************)
MaxN == 3

(***************************************************************************)
(* Helpers on integers and sequences.                                      *)
(***************************************************************************)
Abs(a) == IF a < 0 THEN -a ELSE a

RECURSIVE GCD(_, _)
GCD(a, b) == IF b = 0 THEN a ELSE GCD(b, a % b)

RECURSIVE SumSeq(_)
SumSeq(s) == IF s = <<>> THEN 0 ELSE Head(s) + SumSeq(Tail(s))

(***************************************************************************)
(* Exact arithmetic of the probabilities (double in the code).  NaN is     *)
(* absorbing, as in IEEE arithmetic.                                       *)
(***************************************************************************)
NaN == <<0, 0>>

IsNaN(a) == a[2] = 0

Rat(n, d) ==
    IF d = 0 THEN NaN
    ELSE LET g == GCD(Abs(n), Abs(d))
             s == IF d < 0 THEN -1 ELSE 1
         IN  <<(s * n) \div g, (s * d) \div g>>

RAdd(a, b) == IF IsNaN(a) \/ IsNaN(b) THEN NaN
              ELSE Rat(a[1] * b[2] + b[1] * a[2], a[2] * b[2])

RDiv(a, b) == IF IsNaN(a) \/ IsNaN(b) THEN NaN
              ELSE Rat(a[1] * b[2], a[2] * b[1])

RLess(a, b) == ~IsNaN(a) /\ ~IsNaN(b) /\ a[1] * b[2] < b[1] * a[2]

RECURSIVE RSum(_)
RSum(s) == IF s = <<>> THEN Rat(0, 1) ELSE RAdd(Head(s), RSum(Tail(s)))

\* the sum over all rows, row by row in index order
RECURSIVE RSumRows(_)
RSumRows(rows) ==
    IF rows = <<>> THEN Rat(0, 1) ELSE RAdd(RSum(Head(rows)), RSumRows(Tail(rows)))


(***************************************************************************)
(* Constants of the program, in fixed point where they are real numbers.   *)
(***************************************************************************)
NDim == 2

Unit == 1000

\* Status::Status: N * ndim zeros, gains 1.0, no rows yet, iter = 0
ZeroVec(n) == [i \in 1..n |-> 0]

StatusNew(N) ==
    [neighbors |-> <<>>, probabilities |-> <<>>,
     dY |-> ZeroVec(N * NDim), uY |-> ZeroVec(N * NDim),
     gains |-> [i \in 1..(N * NDim) |-> Unit],
     pos_f |-> ZeroVec(N * NDim), neg_f |-> ZeroVec(N * NDim),
     iter |-> 0]

NoStatus == StatusNew(0)

(***************************************************************************)
(* Tsne::compute_gaussian_perplexity.  The bandwidth search works on       *)
(* exp and log of doubles; what the symmetrization reads from it is the    *)
(* row it leaves: K values divided by their sum.  With finite ascending    *)
(* distances, and a search that keeps beta finite (the search itself is    *)
(* modelled by SpecSearch below), the first value is the largest and all   *)
(* are positive.  A last                                                   *)
(* distance of +Inf leaves 0 in its place (exp(-beta * Inf)) and the       *)
(* search halves beta to the end, the other values ending equal; a NaN,    *)
(* or a first distance of +Inf (Inf - Inf), makes sum_P and so every value *)
(* of the row NaN.  No branch of the function throws.                      *)
(***************************************************************************)
UniformRow(K) == [k \in 1..K |-> Rat(1, K)]

DecayRow(K) == [k \in 1..K |-> Rat(K - k + 1, (K * (K + 1)) \div 2)]

NaNRow(K) == [k \in 1..K |-> NaN]

InfTailRow(K) == [k \in 1..K |-> IF k < K THEN Rat(1, K - 1) ELSE Rat(0, 1)]

\* the rows a finite input may leave: which rows decay is one of four patterns
Patterns == {"uniform", "decay", "odd", "even"}

FiniteRow(pattern, n, K) ==
    CASE pattern = "uniform" -> UniformRow(K)
      [] pattern = "decay"   -> DecayRow(K)
      [] pattern = "odd"     -> IF n % 2 = 1 THEN DecayRow(K) ELSE UniformRow(K)
      [] pattern = "even"    -> IF n % 2 = 0 THEN DecayRow(K) ELSE UniformRow(K)

\* only the first row of the input may hold a non-finite distance: in.dist
GaussianRow(in, pattern, n) ==
    CASE n > 1 \/ in.dist = "finite" -> FiniteRow(pattern, n, in.K)
      [] n = 1 /\ in.dist = "inf"    -> IF in.K = 1 THEN NaNRow(in.K) ELSE InfTailRow(in.K)
      [] n = 1 /\ in.dist = "nan"    -> NaNRow(in.K)

compute_gaussian_perplexity(in) ==
    {[n \in 1..in.N |-> GaussianRow(in, pattern, n)] : pattern \in Patterns}

(***************************************************************************)
(* Tsne::symmetrize_matrix (the member function initialize calls).         *)
(***************************************************************************)
\* the first k2 with neighbors_neighbors[k2] = n, 0 when there is none
RECURSIVE FindFirst(_, _, _, _)
FindFirst(row, n, k2, K) ==
    IF k2 > K THEN 0
    ELSE IF row[k2] = n THEN k2
    ELSE FindFirst(row, n, k2 + 1, K)

\* mutant: a mutual pair is summed into the row of n only
TsneMergeStepOneSided(st, nn_index, K, n, k1) ==
    LET curneighbor == nn_index[n][k1]
        k2 == FindFirst(nn_index[curneighbor], n, 1, K)
        P == st.probabilities
    IN  IF k2 # 0
        THEN IF n < curneighbor
             THEN [st EXCEPT !.probabilities =
                      [P EXCEPT ![n][k1] = RAdd(P[n][k1], P[curneighbor][k2])]]
             ELSE st
        ELSE [col_P |-> [st.col_P EXCEPT ![curneighbor] = Append(@, n)],
              probabilities |-> [P EXCEPT ![curneighbor] = Append(@, P[n][k1])]]

\* the body of the loop over k1, for point n
TsneMergeStep(st, nn_index, K, n, k1) ==
    LET curneighbor == nn_index[n][k1]
        k2 == FindFirst(nn_index[curneighbor], n, 1, K)
        P == st.probabilities
    IN  IF k2 # 0
        THEN IF n < curneighbor
             THEN LET sum == RAdd(P[n][k1], P[curneighbor][k2])
                      P1 == [P EXCEPT ![n][k1] = sum]
                  IN  [st EXCEPT !.probabilities = [P1 EXCEPT ![curneighbor][k2] = sum]]
             ELSE st
        ELSE [col_P |-> [st.col_P EXCEPT ![curneighbor] = Append(@, n)],
              probabilities |-> [P EXCEPT ![curneighbor] = Append(@, P[n][k1])]]

\* the loops over n and k1, t counting the pairs done
RECURSIVE TsneMergeLoop(_, _, _, _, _)
TsneMergeLoop(st, nn_index, K, N, t) ==
    IF t >= N * K THEN st
    ELSE TsneMergeLoop(TsneMergeStep(st, nn_index, K, (t \div K) + 1, (t % K) + 1),
                       nn_index, K, N, t + 1)

\* "Divide the result by two", total being the sum of the halves
TsneHalve(P) == [n \in 1..Len(P) |-> [k \in 1..Len(P[n]) |-> RDiv(P[n][k], Rat(2, 1))]]

\* "Probabilities across the entire matrix sum to unity"
TsneNormalize(P) ==
    LET total == RSumRows(P)
    IN  [n \in 1..Len(P) |-> [k \in 1..Len(P[n]) |-> RDiv(P[n][k], total)]]

TsneSymmetrize(nn_index, K, val_P) ==
    LET N == Len(nn_index)
        merged == TsneMergeLoop([col_P |-> nn_index, probabilities |-> val_P],
                                nn_index, K, N, 0)
    IN  [neighbors |-> merged.col_P,
         probabilities |-> TsneNormalize(TsneHalve(merged.probabilities)),
         merged |-> merged.probabilities]

(***************************************************************************)
(* qdtsne::symmetrize_matrix (the free function on a NeighborList, whose   *)
(* rows are sequences of pairs <<index, probability>>).                    *)
(***************************************************************************)
\* operator< of std::pair<Index, double>
PairLess(a, b) == a[1] < b[1] \/ (a[1] = b[1] /\ RLess(a[2], b[2]))

\* std::sort of one row
RECURSIVE InsertSorted(_, _)
InsertSorted(row, e) ==
    IF row = <<>> THEN <<e>>
    ELSE IF PairLess(e, Head(row)) THEN <<e>> \o row
    ELSE <<Head(row)>> \o InsertSorted(Tail(row), e)

RECURSIVE SortRow(_)
SortRow(row) == IF row = <<>> THEN <<>> ELSE InsertSorted(SortRow(Tail(row)), Head(row))

\* mutant: the cursor into the neighbor's row is never moved
AdvanceStuck(target, curlast, limits, desired) == curlast

\* while (curlast < limits && target[curlast].first < desired) ++curlast;
RECURSIVE Advance(_, _, _, _)
Advance(target, curlast, limits, desired) ==
    IF curlast <= limits /\ target[curlast][1] < desired
    THEN Advance(target, curlast + 1, limits, desired)
    ELSE curlast

\* the body of the loop over the entries y of x[first]; j is the place of y
ListMergeStep(st, original, first, j) ==
    LET y == st.x[first][j]
        target == st.x[y[1]]
        limits == original[y[1]]
        curlast == Advance(target, st.last[y[1]], limits, first)
        st1 == [st EXCEPT !.last[y[1]] = curlast]
    IN  IF curlast <= limits /\ target[curlast][1] = first
        THEN IF first < y[1]
             THEN LET combined == RAdd(y[2], target[curlast][2])
                      x1 == [st.x EXCEPT ![first][j] = <<y[1], combined>>]
                  IN  [st1 EXCEPT !.x = [x1 EXCEPT ![y[1]][curlast] = <<first, combined>>]]
             ELSE st1
        ELSE [st1 EXCEPT !.x[y[1]] = Append(@, <<first, y[2]>>)]

\* for (auto& y : current), the end of the row taken when the loop starts
RECURSIVE ListMergeRow(_, _, _, _, _)
ListMergeRow(st, original, first, j, len) ==
    IF j > len THEN st
    ELSE ListMergeRow(ListMergeStep(st, original, first, j), original, first, j + 1, len)

RECURSIVE ListMergeLoop(_, _, _)
ListMergeLoop(st, original, first) ==
    IF first > Len(st.x) THEN st
    ELSE ListMergeLoop(ListMergeRow(st, original, first, 1, Len(st.x[first])),
                       original, first + 1)

ListProbs(rows) == [n \in 1..Len(rows) |-> [k \in 1..Len(rows[n]) |-> rows[n][k][2]]]

ListIndices(rows) == [n \in 1..Len(rows) |-> [k \in 1..Len(rows[n]) |-> rows[n][k][1]]]

\* mutant: the total is not doubled before the division
ListNormalizeOnce(rows, total) ==
    [n \in 1..Len(rows) |->
        SortRow([k \in 1..Len(rows[n]) |-> <<rows[n][k][1], RDiv(rows[n][k][2], total)>>])]

\* total *= 2; y.second /= total; std::sort(current)
ListNormalize(rows, total) ==
    LET twice == RAdd(total, total)
    IN  [n \in 1..Len(rows) |->
            SortRow([k \in 1..Len(rows[n]) |-> <<rows[n][k][1], RDiv(rows[n][k][2], twice)>>])]

symmetrize_matrix(list) ==
    LET sorted == [n \in 1..Len(list) |-> SortRow(list[n])]
        original == [n \in 1..Len(list) |-> Len(list[n])]
        total == RSumRows(ListProbs(sorted))
        merged == ListMergeLoop([x |-> sorted, last |-> [n \in 1..Len(list) |-> 1]],
                                original, 1)
    IN  [x |-> ListNormalize(merged.x, total), merged |-> ListProbs(merged.x)]

(***************************************************************************)
(* The calls of the affinity builder and their arguments.                  *)
(***************************************************************************)
\* K distinct neighbors of point n, itself excluded, in any order of distance
ValidRows(n, N, K) ==
    {r \in [1..K -> (1..N) \ {n}] : \A a, b \in 1..K : a # b => r[a] # r[b]}

\* K >= N: the row cannot avoid n; n itself at distance 0, then the others in turn
FullRow(n, N, K) == [k \in 1..K |-> ((n + k - 2) % N) + 1]

IndexRows(n, N, K) == IF K < N THEN ValidRows(n, N, K) ELSE {FullRow(n, N, K)}

RECURSIVE ListsFrom(_, _, _)
ListsFrom(n, N, K) ==
    IF n > N THEN {<<>>}
    ELSE {<<row>> \o rest : row \in IndexRows(n, N, K), rest \in ListsFrom(n + 1, N, K)}

NeighborLists(N, K) == ListsFrom(1, N, K)

\* rows of distinct neighbors without self-edges: what a neighbor search returns
ValidInput(in) ==
    /\ in.K < in.N
    /\ \A n \in 1..in.N : \A a \in 1..in.K :
          /\ in.nn_index[n][a] \in (1..in.N) \ {n}
          /\ \A b \in 1..in.K : a # b => in.nn_index[n][a] # in.nn_index[n][b]

PerplexityChoices == {Unit \div 3, Unit \div 2, Unit, (4 * Unit) \div 3}

\* const int K = std::ceil(perplexity * 3)
SearchK(perplexity) == (3 * perplexity + Unit - 1) \div Unit

BaseCfg ==
    [perplexity |-> Unit, max_iter |-> 0, stop_lying_iter |-> 0, mom_switch_iter |-> 0,
     start_momentum |-> Unit \div 2, final_momentum |-> (8 * Unit) \div 10,
     eta |-> 200 * Unit, exaggeration_factor |-> 12 * Unit]

IdleFrame == [pc |-> "idle", multiplier |-> 0, momentum |-> 0]

NoEntry == [iter |-> 0, max_iter |-> 0, Y |-> <<>>, status |-> NoStatus]

NoneUsed ==
    [runs |-> 0, calls |-> 0, total |-> 0, iter |-> 0, multiplier |-> 0, momentum |-> 0,
     stop |-> 0, switch |-> 0]

NoOracle == [last |-> 0, turns |-> 0]

NoResult == [n |-> 0, theta |-> 0, sum_Q |-> 0, neg_f |-> <<>>, parts |-> <<>>]

NoTree ==
    [Y |-> <<>>, maxdepth |-> 0, store |-> <<>>, locations |-> <<>>, phase |-> "none",
     builds |-> 0, result |-> NoResult]

NoInterp ==
    [ndim |-> 0, Y |-> <<>>, intervals |-> 0, pc |-> "none", error |-> "none",
     waypoints |-> <<>>, visits |-> 0, has_zero |-> <<>>, numbered |-> <<>>,
     interpolants |-> 0, filled |-> {}, evaluated |-> {}, collected |-> {}]

NoReduction ==
    [N |-> 0, q |-> <<>>, owner |-> <<>>, pc |-> "none", omp_buffer |-> <<>>,
     done |-> {}, order |-> <<>>, sum_Q |-> 0]

NoSearch ==
    [row |-> "none", pc |-> "none", iter |-> 0, evals |-> 0, beta |-> <<0, 0>>,
     min_beta |-> <<0, 0>>, max_beta |-> <<0, 0>>, output |-> <<>>, sum_P |-> <<0, 1>>,
     step |-> "none", converged |-> FALSE]

NoStage ==
    [N |-> 0, Y |-> <<>>, owner |-> <<>>, pc |-> "none", done |-> {}, pos_f |-> <<>>,
     neg_f |-> <<>>, omp_buffer |-> <<>>, log |-> {}, old |-> 0]

NoTsne == [members |-> <<>>, last |-> "none", omitted |-> FALSE]

NoCodec == [a |-> <<>>, b |-> <<>>, intervals |-> 0, pc |-> "none", ha |-> 0, hb |-> 0, back |-> <<>>]

NoMass == [before |-> Rat(0, 1), after |-> Rat(0, 1)]

InitAffinity ==
    /\ \E N \in 2..MaxN :
         \/ \E K \in 1..N, kd \in {"finite", "inf", "nan"} : \E nn \in NeighborLists(N, K) :
               input = [path |-> "neighbors", N |-> N, K |-> K, nn_index |-> nn,
                        n_dist |-> N, dist |-> kd]
         \/ \E K \in 1..N : \E nn \in NeighborLists(N, K) :
               input = [path |-> "neighbors", N |-> N, K |-> K, nn_index |-> nn,
                        n_dist |-> N - 1, dist |-> "finite"]
         \/ \E K \in 1..(N - 1) : \E nn \in NeighborLists(N, K) :
               input = [path |-> "list", N |-> N, K |-> K, nn_index |-> nn,
                        n_dist |-> N, dist |-> "finite"]
         \/ input = [path |-> "searcher", N |-> N, K |-> 0, nn_index |-> <<>>,
                     n_dist |-> N, dist |-> "finite"]
    /\ phase = "start"
    /\ error = "none"
    /\ status = NoStatus
    /\ x = <<>>
    /\ mass = NoMass
    /\ cfg \in IF input.path = "searcher"
               THEN {[BaseCfg EXCEPT !.perplexity = p] : p \in PerplexityChoices}
               ELSE {BaseCfg}
    /\ Y = <<>>
    /\ frame = IdleFrame
    /\ entry = NoEntry
    /\ used = NoneUsed
    /\ codec = NoCodec
    /\ tsne = NoTsne
    /\ stage = NoStage
    /\ search = NoSearch
    /\ reduction = NoReduction
    /\ interp = NoInterp
    /\ oracle = NoOracle
    /\ tree = NoTree

(***************************************************************************)
(* Tsne::initialize(nn_index, nn_dist, K), on the arguments in.            *)
(***************************************************************************)
\* mutant: a non-finite distance is rejected
InitializeNeighborsChecked(in) ==
    IF Len(in.nn_index) # in.n_dist \/ in.dist # "finite"
    THEN /\ phase' = "failed"
         /\ error' = "indices and distances should be of the same length"
         /\ UNCHANGED <<status, mass>>
    ELSE \E val_P \in compute_gaussian_perplexity(in) :
            LET sym == TsneSymmetrize(in.nn_index, in.K, val_P)
            IN  /\ status' = [StatusNew(Len(in.nn_index)) EXCEPT
                                 !.neighbors = sym.neighbors,
                                 !.probabilities = sym.probabilities]
                /\ mass' = [before |-> RSumRows(val_P), after |-> RSumRows(sym.merged)]
                /\ phase' = "initialized"
                /\ error' = "none"

InitializeNeighbors(in) ==
    IF Len(in.nn_index) # in.n_dist
    THEN /\ phase' = "failed"
         /\ error' = "indices and distances should be of the same length"
         /\ UNCHANGED <<status, mass>>
    ELSE \E val_P \in compute_gaussian_perplexity(in) :
            LET sym == TsneSymmetrize(in.nn_index, in.K, val_P)
            IN  /\ status' = [StatusNew(Len(in.nn_index)) EXCEPT
                                 !.neighbors = sym.neighbors,
                                 !.probabilities = sym.probabilities]
                /\ mass' = [before |-> RSumRows(val_P), after |-> RSumRows(sym.merged)]
                /\ phase' = "initialized"
                /\ error' = "none"

Initialize ==
    /\ phase = "start"
    /\ input.path = "neighbors"
    /\ InitializeNeighbors(input)
    /\ UNCHANGED <<input, x, cfg, Y, frame, entry, used, oracle, tree, interp, reduction, search, stage, tsne, codec>>

(***************************************************************************)
(* Tsne::initialize(searcher): K from the perplexity, the check of K       *)
(* against the number of observations, the search, then the call above.    *)
(***************************************************************************)
InitializeSearcher ==
    /\ phase = "start"
    /\ input.path = "searcher"
    /\ LET K == SearchK(cfg.perplexity)
           N == input.N
       IN  IF K >= N
           THEN /\ phase' = "failed"
                /\ error' = "number of observations should be greater than 3 * perplexity"
                /\ input' = [input EXCEPT !.K = K]
                /\ UNCHANGED <<status, mass>>
           ELSE \E nn \in NeighborLists(N, K) :
                   /\ input' = [input EXCEPT !.K = K, !.nn_index = nn]
                   /\ InitializeNeighbors([input EXCEPT !.K = K, !.nn_index = nn])
    /\ UNCHANGED <<x, cfg, Y, frame, entry, used, oracle, tree, interp, reduction, search, stage, tsne, codec>>

(***************************************************************************)
(* qdtsne::symmetrize_matrix(x) on the list made of the rows of indices    *)
(* and their probabilities.                                                *)
(***************************************************************************)
MakeList(nn_index, val_P) ==
    [n \in 1..Len(nn_index) |-> [k \in 1..Len(nn_index[n]) |-> <<nn_index[n][k], val_P[n][k]>>]]

SymmetrizeList ==
    /\ phase = "start"
    /\ input.path = "list"
    /\ \E val_P \in compute_gaussian_perplexity(input) :
          LET sym == symmetrize_matrix(MakeList(input.nn_index, val_P))
          IN  /\ x' = sym.x
              /\ mass' = [before |-> RSumRows(val_P), after |-> RSumRows(sym.merged)]
    /\ phase' = "symmetrized"
    /\ UNCHANGED <<input, error, status, cfg, Y, frame, entry, used, oracle, tree, interp, reduction, search, stage, tsne, codec>>

NextAffinity == Initialize \/ InitializeSearcher \/ SymmetrizeList

SpecAffinity == InitAffinity /\ [][NextAffinity]_vars

(***************************************************************************)
(* Properties of the affinity builder.                                     *)
(***************************************************************************)
\* row i of the index rows idx holds j with the value p
Holds(idx, val, i, j, p) ==
    \E a \in 1..Len(idx[i]) : idx[i][a] = j /\ val[i][a] = p /\ ~IsNaN(p)

SymmetricP(idx, val) ==
    \A i \in 1..Len(idx) : \A a \in 1..Len(idx[i]) :
        Holds(idx, val, idx[i][a], i, val[i][a])

\* some pair of the input is mutual and some pair is one-sided
HasMutual(in) ==
    \E n \in 1..in.N : \E k \in 1..in.K :
        FindFirst(in.nn_index[in.nn_index[n][k]], n, 1, in.K) # 0

HasOneSided(in) ==
    \E n \in 1..in.N : \E k \in 1..in.K :
        FindFirst(in.nn_index[in.nn_index[n][k]], n, 1, in.K) = 0

\* C1: after initialize, and after symmetrize_matrix on a NeighborList, P is
\* symmetric: row i holds (j, p) if and only if row j holds (i, p), for every
\* input of finite distances whose rows have distinct indices.
C1_Symmetric ==
    /\ (phase = "initialized" /\ input.dist = "finite")
          => SymmetricP(status.neighbors, status.probabilities)
    /\ phase = "symmetrized" => SymmetricP(ListIndices(x), ListProbs(x))

C1_Witness ==
    /\ phase = "initialized"
    /\ input.dist = "finite"
    /\ ValidInput(input)
    /\ HasMutual(input)
    /\ HasOneSided(input)
    /\ \E n \in 1..input.N : Len(status.neighbors[n]) > input.K

\* C2: for neighbor lists without self-edges and with finite distances, the
\* merge/append step leaves a total mass of twice the total before it, and the
\* entries of P sum to 1 after the division.
C2_SumsToOne ==
    /\ (phase = "initialized" /\ input.dist = "finite" /\ ValidInput(input))
          => /\ mass.after = RAdd(mass.before, mass.before)
             /\ RSumRows(status.probabilities) = Rat(1, 1)
    /\ phase = "symmetrized"
          => /\ mass.after = RAdd(mass.before, mass.before)
             /\ RSumRows(ListProbs(x)) = Rat(1, 1)

C2_Witness ==
    /\ phase = "symmetrized"
    /\ HasMutual(input)
    /\ HasOneSided(input)
    /\ mass.before = Rat(input.N, 1)
    /\ \E n \in 1..input.N : Len(x[n]) > input.K

\* C3 as claimed: after initialize every row of P in the Status is sorted by
\* strictly ascending neighbor index.
Ascending(row) == \A a \in 1..(Len(row) - 1) : row[a] < row[a + 1]

C3_StatusRowsSorted ==
    (phase = "initialized" /\ ValidInput(input))
        => \A n \in 1..Len(status.neighbors) : Ascending(status.neighbors[n])

\* C4 as claimed: every input with K >= N is rejected with an error and no
\* Status is returned, on the neighbor-list path and on the searcher path.
C4_RejectsKGeqN ==
    (phase # "start" /\ input.path # "list" /\ input.K >= input.N)
        => (phase = "failed" /\ error # "none" /\ status = NoStatus)

\* C5 as claimed: input that contains a non-finite distance is rejected with
\* an error and no Status is returned.
C5_RejectsNonFinite ==
    (phase # "start" /\ input.dist # "finite")
        => (phase = "failed" /\ error # "none" /\ status = NoStatus)

\* C5, amended: initialize does not look at whether the distances are finite.
\* With index and distance lists of the same length, input that contains a
\* non-finite distance raises no error and a Status is returned.
C5_NonFiniteAccepted ==
    (phase # "start" /\ input.path = "neighbors" /\ input.dist # "finite"
        /\ input.n_dist = input.N)
        => (phase = "initialized" /\ error = "none"
              /\ Len(status.probabilities) = input.N)

C5_Witness ==
    /\ phase = "initialized"
    /\ input.dist = "nan"
    /\ \A n \in 1..input.N : \A k \in 1..Len(status.probabilities[n]) :
          IsNaN(status.probabilities[n][k])

(***************************************************************************)
(* Fixed-point arithmetic of the iteration loop (double in the code):      *)
(* a value v stands for v / Unit, products and quotients are rounded to    *)
(* the nearest unit.                                                       *)
(***************************************************************************)
RoundDiv(a, b) ==
    LET n == IF b < 0 THEN -a ELSE a
        d == Abs(b)
    IN  IF n >= 0 THEN (2 * n + d) \div (2 * d) ELSE -((2 * (-n) + d) \div (2 * d))

FMul(a, b) == RoundDiv(a * b, Unit)

FDiv(a, b) == RoundDiv(a * Unit, b)

ToFixed(r) == RoundDiv(r[1] * Unit, r[2])

Max(a, b) == IF a >= b THEN a ELSE b

\* Tsne::sign
sign(v) == IF v = 0 THEN 0 ELSE IF v < 0 THEN -1 ELSE 1

\* the place of coordinate d of point n in Y, dY, uY, gains, pos_f, neg_f
Coord(n, d) == (n - 1) * NDim + d

PointOf(i) == ((i - 1) \div NDim) + 1

DimOf(i) == ((i - 1) % NDim) + 1

(***************************************************************************)
(* Tsne::compute_edge_forces.                                              *)
(***************************************************************************)
SqDist(Yv, n, m) ==
    SumSeq([d \in 1..NDim |->
               FMul(Yv[Coord(n, d)] - Yv[Coord(m, d)], Yv[Coord(n, d)] - Yv[Coord(m, d)])])

\* const double mult = multiplier * cur_prob[i] / (1 + sqdist)
EdgeMult(multiplier, prob, sqdist) == FDiv(FMul(multiplier, ToFixed(prob)), Unit + sqdist)

compute_edge_forces(st, Yv, multiplier) ==
    [i \in 1..Len(st.pos_f) |->
        LET n == PointOf(i)
            d == DimOf(i)
            cur_col == st.neighbors[n]
        IN  SumSeq([k \in 1..Len(cur_col) |->
                FMul(EdgeMult(multiplier, st.probabilities[n][k], SqDist(Yv, n, cur_col[k])),
                     Yv[Coord(n, d)] - Yv[Coord(cur_col[k], d)])])]

(***************************************************************************)
(* Tsne::compute_gradient.  The tree and its compute_non_edge_forces are   *)
(* not part of this model: rep is what the calls for the N points leave    *)
(* in neg_f and their sum sum_Q, any of RepulsionChoices.                  *)
(***************************************************************************)
compute_gradient(st, Yv, multiplier, rep) ==
    LET pos_f == compute_edge_forces(st, Yv, multiplier)
    IN  [st EXCEPT !.pos_f = pos_f,
                   !.neg_f = rep.neg_f,
                   !.dY = [i \in 1..Len(st.dY) |-> pos_f[i] - FDiv(rep.neg_f[i], rep.sum_Q)]]

(***************************************************************************)
(* Tsne::iterate.                                                          *)
(***************************************************************************)
GainMin == Unit \div 100

GainStep == Unit \div 5

GainDecay == (4 * Unit) \div 5

\* mutant: no lower limit on a gain
UpdateGainUnclamped(g, dYi, uYi) ==
    IF sign(dYi) # sign(uYi) THEN g + GainStep ELSE FMul(g, GainDecay)

\* g = std::max(0.01, sign(dY[i]) != sign(uY[i]) ? (g + 0.2) : (g * 0.8))
UpdateGain(g, dYi, uYi) ==
    Max(GainMin, IF sign(dYi) # sign(uYi) THEN g + GainStep ELSE FMul(g, GainDecay))

\* uY[i] = momentum * uY[i] - eta * gains[i] * dY[i]
UpdateVelocity(uYi, gi, dYi, momentum, eta) == FMul(momentum, uYi) - FMul(FMul(eta, gi), dYi)

\* the sum over the N points of coordinate d
DimSum(Yv, N, d) == SumSeq([n \in 1..N |-> Yv[Coord(n, d)]])

\* "Make solution zero-mean": sum /= N; *start -= sum
Recenter(Yv, N) ==
    [i \in 1..Len(Yv) |-> Yv[i] - RoundDiv(DimSum(Yv, N, DimOf(i)), N)]

\* mutant: the mean is taken out of Y before uY is added to it
UpdateEmbeddingCenterFirst(st, Yv, momentum, eta) ==
    LET gains == [i \in 1..Len(st.gains) |-> UpdateGain(st.gains[i], st.dY[i], st.uY[i])]
        uY == [i \in 1..Len(st.uY) |->
                  UpdateVelocity(st.uY[i], gains[i], st.dY[i], momentum, eta)]
        centered == Recenter(Yv, Len(st.neighbors))
    IN  [status |-> [st EXCEPT !.gains = gains, !.uY = uY],
         Y |-> [i \in 1..Len(Yv) |-> centered[i] + uY[i]]]

\* gains from this gradient and the old uY, then uY, then Y, then the mean
UpdateEmbedding(st, Yv, momentum, eta) ==
    LET gains == [i \in 1..Len(st.gains) |-> UpdateGain(st.gains[i], st.dY[i], st.uY[i])]
        uY == [i \in 1..Len(st.uY) |->
                  UpdateVelocity(st.uY[i], gains[i], st.dY[i], momentum, eta)]
        moved == [i \in 1..Len(Yv) |-> Yv[i] + uY[i]]
    IN  [status |-> [st EXCEPT !.gains = gains, !.uY = uY],
         Y |-> Recenter(moved, Len(st.neighbors))]

iterate(st, Yv, multiplier, momentum, eta, rep) ==
    UpdateEmbedding(compute_gradient(st, Yv, multiplier, rep), Yv, momentum, eta)

(***************************************************************************)
(* Tsne::run(status, Y).  frame holds the locals of the call, entry what   *)
(* the call found on entry, used what the last call of iterate was given.  *)
(***************************************************************************)
ShortIter == 4

LongIter == 22

MaxRuns == 2

MaxTurns == 1

\* mutant: the multiplier a fresh Status starts with, whatever iter is
InitialMultiplierFresh(iter, c) == IF 0 < c.stop_lying_iter THEN c.exaggeration_factor ELSE Unit

\* double multiplier = (iter < stop_lying_iter ? exaggeration_factor : 1)
InitialMultiplier(iter, c) == IF iter < c.stop_lying_iter THEN c.exaggeration_factor ELSE Unit

\* mutant: the momentum a fresh Status starts with, whatever iter is
InitialMomentumFresh(iter, c) == IF 0 < c.mom_switch_iter THEN c.start_momentum ELSE c.final_momentum

\* double momentum = (iter < mom_switch_iter ? start_momentum : final_momentum)
InitialMomentum(iter, c) == IF iter < c.mom_switch_iter THEN c.start_momentum ELSE c.final_momentum

\* if (iter == stop_lying_iter) { multiplier = 1; }
LoopMultiplier(iter, multiplier, c) == IF iter = c.stop_lying_iter THEN Unit ELSE multiplier

\* if (iter == mom_switch_iter) { momentum = final_momentum; }
LoopMomentum(iter, momentum, c) == IF iter = c.mom_switch_iter THEN c.final_momentum ELSE momentum

\* mutant: one iteration more than asked for
LoopContinuesInclusive(iter, max_iter) == iter <= max_iter

\* for(; iter < max_iter; ++iter)
LoopContinues(iter, max_iter) == iter < max_iter

\* what the N calls of tree.compute_non_edge_forces leave: neg_f and sum_Q
RepulsionKinds == {-1, 0, 1}

Repulsion(r, N) ==
    [neg_f |-> [i \in 1..(N * NDim) |-> r * ((i % 3) - 1) * (Unit \div 10)],
     sum_Q |-> Unit + r * r * Unit]

RunEnter ==
    /\ phase = "initialized"
    /\ frame.pc # "loop"
    /\ used.runs < MaxRuns
    /\ frame' = [pc |-> "loop",
                 multiplier |-> InitialMultiplier(status.iter, cfg),
                 momentum |-> InitialMomentum(status.iter, cfg)]
    /\ entry' = [iter |-> status.iter, max_iter |-> cfg.max_iter, Y |-> Y, status |-> status]
    /\ used' = [used EXCEPT !.runs = @ + 1, !.calls = 0]
    /\ UNCHANGED <<input, phase, error, status, x, mass, cfg, Y, oracle, tree, interp, reduction, search, stage, tsne, codec>>

RunIterate ==
    /\ frame.pc = "loop"
    /\ LoopContinues(status.iter, cfg.max_iter)
    /\ \E r \in RepulsionKinds :
          /\ r # oracle.last => oracle.turns < MaxTurns
          /\ oracle' = [last |-> r,
                        turns |-> IF r # oracle.last THEN oracle.turns + 1 ELSE oracle.turns]
          /\ LET multiplier == LoopMultiplier(status.iter, frame.multiplier, cfg)
                 momentum == LoopMomentum(status.iter, frame.momentum, cfg)
                 out == iterate(status, Y, multiplier, momentum, cfg.eta,
                                Repulsion(r, Len(status.neighbors)))
             IN  /\ status' = [out.status EXCEPT !.iter = @ + 1]
                 /\ Y' = out.Y
                 /\ frame' = [frame EXCEPT !.multiplier = multiplier, !.momentum = momentum]
                 /\ used' = [used EXCEPT !.calls = @ + 1, !.total = @ + 1,
                                         !.iter = status.iter,
                                         !.multiplier = multiplier,
                                         !.momentum = momentum,
                                         !.stop = cfg.stop_lying_iter,
                                         !.switch = cfg.mom_switch_iter]
    /\ UNCHANGED <<input, phase, error, x, mass, cfg, entry, tree, interp, reduction, search, stage, tsne, codec>>

RunReturn ==
    /\ frame.pc = "loop"
    /\ ~LoopContinues(status.iter, cfg.max_iter)
    /\ frame' = [frame EXCEPT !.pc = "returned"]
    /\ UNCHANGED <<input, phase, error, status, x, mass, cfg, Y, entry, used, oracle, tree, interp, reduction, search, stage, tsne, codec>>

(***************************************************************************)
(* The setters, called between two calls of run.                           *)
(***************************************************************************)
BetweenRuns == phase = "initialized" /\ frame.pc = "returned" /\ used.runs < MaxRuns

MaxIterChoices == 0..ShortIter

StopLyingChoices == {0, 1, ShortIter - 1}

MomSwitchChoices == {1, ShortIter}

set_max_iter ==
    /\ BetweenRuns
    /\ \E m \in MaxIterChoices \ {cfg.max_iter} : cfg' = [cfg EXCEPT !.max_iter = m]
    /\ UNCHANGED <<input, phase, error, status, x, mass, Y, frame, entry, used, oracle, tree, interp, reduction, search, stage, tsne, codec>>

set_stop_lying_iter ==
    /\ BetweenRuns
    /\ \E s \in StopLyingChoices \ {cfg.stop_lying_iter} : cfg' = [cfg EXCEPT !.stop_lying_iter = s]
    /\ UNCHANGED <<input, phase, error, status, x, mass, Y, frame, entry, used, oracle, tree, interp, reduction, search, stage, tsne, codec>>

set_mom_switch_iter ==
    /\ BetweenRuns
    /\ \E m \in MomSwitchChoices \ {cfg.mom_switch_iter} : cfg' = [cfg EXCEPT !.mom_switch_iter = m]
    /\ UNCHANGED <<input, phase, error, status, x, mass, Y, frame, entry, used, oracle, tree, interp, reduction, search, stage, tsne, codec>>

(***************************************************************************)
(* The callers: a ring of MaxN points, each with the next one as its only  *)
(* neighbor, from an embedding of all zeros or from one off the origin.    *)
(***************************************************************************)
RingInput ==
    [path |-> "neighbors", N |-> MaxN, K |-> 1,
     nn_index |-> [n \in 1..MaxN |-> <<(n % MaxN) + 1>>],
     n_dist |-> MaxN, dist |-> "finite"]

StartingY == {ZeroVec(MaxN * NDim), [i \in 1..(MaxN * NDim) |-> ((i * i) % 5) * (Unit \div 4)]}

RunCfg == [BaseCfg EXCEPT !.eta = Unit]

InitCaller ==
    /\ input = RingInput
    /\ phase = "start"
    /\ error = "none"
    /\ status = NoStatus
    /\ x = <<>>
    /\ mass = NoMass
    /\ Y \in StartingY
    /\ frame = IdleFrame
    /\ entry = NoEntry
    /\ used = NoneUsed
    /\ codec = NoCodec
    /\ tsne = NoTsne
    /\ stage = NoStage
    /\ search = NoSearch
    /\ reduction = NoReduction
    /\ interp = NoInterp
    /\ tree = NoTree

\* several short calls of run, the parameters set again between them, the
\* repulsion held at zero
InitRun ==
    /\ InitCaller
    /\ oracle = [NoOracle EXCEPT !.turns = MaxTurns]
    /\ cfg \in {[RunCfg EXCEPT !.max_iter = m, !.stop_lying_iter = s, !.mom_switch_iter = w] :
                   m \in MaxIterChoices, s \in StopLyingChoices, w \in MomSwitchChoices}

NextRun ==
    \/ Initialize
    \/ RunEnter
    \/ RunIterate
    \/ RunReturn
    \/ set_max_iter
    \/ set_stop_lying_iter
    \/ set_mom_switch_iter

SpecRun == InitRun /\ [][NextRun]_vars

\* one long call of run
InitIter ==
    /\ InitCaller
    /\ oracle = NoOracle
    /\ cfg = [RunCfg EXCEPT !.max_iter = LongIter,
                            !.stop_lying_iter = ShortIter, !.mom_switch_iter = ShortIter + 1]

NextIter ==
    \/ Initialize
    \/ RunEnter
    \/ RunIterate
    \/ RunReturn

SpecIter == InitIter /\ [][NextIter]_vars

(***************************************************************************)
(* Properties of run and iterate.                                          *)
(***************************************************************************)
\* C6: run(status, Y) performs exactly max(0, max_iter - status.iter)
\* iterations: status.iter is 0 after initialize, every step leaves it alone
\* or, inside the loop of run, adds exactly one to it, and when run has
\* returned it equals max(iter on entry, max_iter); a call entered with
\* status.iter >= max_iter returns with Y and the Status as it found them.
C6_RunIterations ==
    /\ []((phase = "initialized" /\ used.runs = 0) => status.iter = 0)
    /\ [][\/ status'.iter = status.iter
          \/ /\ status'.iter = status.iter + 1
             /\ frame.pc = "loop"
             /\ used'.calls = used.calls + 1]_vars
    /\ [](frame.pc = "returned" =>
             /\ used.calls = Max(0, entry.max_iter - entry.iter)
             /\ status.iter = Max(entry.iter, entry.max_iter)
             /\ entry.iter >= entry.max_iter => (Y = entry.Y /\ status = entry.status))

\* a call that found nothing to do, after a call that iterated
C6_Witness ==
    /\ frame.pc = "returned"
    /\ used.runs = 2
    /\ used.total > 0
    /\ used.calls = 0
    /\ entry.iter >= entry.max_iter
    /\ status.iter > 0

\* C7: in every call of run, fresh or resumed, the iteration with counter
\* value i is given the multiplier exaggeration_factor when
\* i < stop_lying_iter and the multiplier 1 otherwise.
C7_MultiplierSchedule ==
    used.total > 0 =>
        used.multiplier = IF used.iter < used.stop THEN cfg.exaggeration_factor ELSE Unit

\* a resumed call that starts beyond stop_lying_iter
C7_Witness ==
    /\ used.runs = 2
    /\ used.calls > 0
    /\ entry.iter > used.stop
    /\ 0 < used.stop
    /\ used.multiplier = Unit
    /\ cfg.exaggeration_factor # Unit

\* C8: in every call of run, fresh or resumed, the iteration with counter
\* value i is given start_momentum when i < mom_switch_iter and
\* final_momentum otherwise; within a call, an iteration that follows one
\* given final_momentum is given final_momentum.
C8_MomentumSchedule ==
    /\ [](used.total > 0 =>
             used.momentum = IF used.iter < used.switch THEN cfg.start_momentum
                                                        ELSE cfg.final_momentum)
    /\ [][(/\ used.calls > 0
           /\ used'.calls = used.calls + 1
           /\ used.momentum = cfg.final_momentum) => used'.momentum = cfg.final_momentum]_vars

\* a resumed call that starts beyond mom_switch_iter
C8_Witness ==
    /\ used.runs = 2
    /\ used.calls > 1
    /\ entry.iter > used.switch
    /\ used.momentum = cfg.final_momentum
    /\ cfg.start_momentum # cfg.final_momentum

\* C9: after every iteration the coordinates of each dimension sum to zero
\* up to the rounding of the division by N (the mean is within half a unit
\* of zero), whatever the mean of Y was before.
C9_ZeroMean ==
    status.iter > 0 =>
        \A d \in 1..NDim : 2 * Abs(DimSum(Y, Len(status.neighbors), d)) <= Len(status.neighbors)

\* Y entered off the origin and the last iteration moved it
C9_Witness ==
    /\ status.iter > 1
    /\ \E d \in 1..NDim : Abs(DimSum(entry.Y, Len(status.neighbors), d)) > Unit
    /\ \E i \in 1..Len(status.uY) : status.uY[i] # 0
    /\ \E d \in 1..NDim : SumSeq([n \in 1..Len(status.neighbors) |-> status.uY[Coord(n, d)]]) # 0

\* C10: an iteration leaves in every gain the larger of 0.01 and: the old
\* gain plus 0.2 when the sign of the gradient of this iteration differs
\* from the sign of the velocity of the iteration before, the old gain
\* times 0.8 otherwise; every gain is 1.0 in a new Status and at least 0.01
\* ever after.
C10_Gains ==
    /\ [](\A i \in 1..Len(status.gains) :
             /\ status.gains[i] >= GainMin
             /\ status.iter = 0 => status.gains[i] = Unit)
    /\ [][status'.iter = status.iter + 1 =>
             \A i \in 1..Len(status.gains) :
                 LET raised == status.gains[i] + GainStep
                     lowered == RoundDiv(status.gains[i] * GainDecay, Unit)
                     next == IF sign(status'.dY[i]) # sign(status.uY[i]) THEN raised ELSE lowered
                 IN  status'.gains[i] = IF next < GainMin THEN GainMin ELSE next]_vars

\* a gain held at 0.01 by the clamp
C10_Witness ==
    /\ status.iter > 0
    /\ \E i \in 1..Len(status.gains) : status.gains[i] = GainMin

\* C11: an iteration whose gradient dY_i is exactly zero does not raise
\* gain i by 0.2, whatever the velocity uY_i of the iteration before.
C11_ZeroGradientNoFlip ==
    [][status'.iter = status.iter + 1 =>
          \A i \in 1..Len(status.gains) :
              status'.dY[i] = 0 => status'.gains[i] # status.gains[i] + GainStep]_vars

(***************************************************************************)
(* The SPTree.  Its header is not among the sources of this model: the     *)
(* construction and the traversal below follow the description of the tree *)
(* (node record, set(Y), compute_non_edge_forces); what is asked of them   *)
(* follows the tests of the tree.  Node i of the code's store is element   *)
(* i + 1 of store, child slot k is element k + 1 of children, 0 is "no     *)
(* child".  Coordinates are whole numbers, Fine of them to a grid step, so *)
(* that a box is halved exactly down to depth MaxTreeDepth.                *)
(***************************************************************************)
MaxTreeDepth == 2

RECURSIVE Pow2(_)
Pow2(k) == IF k = 0 THEN 1 ELSE 2 * Pow2(k - 1)

\* the padding of the root's box
TreeEps == Pow2(MaxTreeDepth)

Fine == 8 * TreeEps

NSlots == Pow2(NDim)

Bit(k, d) == (k \div Pow2(d - 1)) % 2

Node(store, i) == store[i + 1]

SetNode(store, i, node) == [store EXCEPT ![i + 1] = node]

MinOf(S) == CHOOSE a \in S : \A b \in S : a <= b

MaxOf(S) == CHOOSE a \in S : \A b \in S : a >= b

\* the root: the middle of the bounding box of Y, half its extent plus the padding
RootNode(Yv) ==
    LET lo == [d \in 1..NDim |-> MinOf({Yv[n][d] : n \in 1..Len(Yv)})]
        hi == [d \in 1..NDim |-> MaxOf({Yv[n][d] : n \in 1..Len(Yv)})]
    IN  [midpoint |-> [d \in 1..NDim |-> (lo[d] + hi[d]) \div 2],
         halfwidth |-> [d \in 1..NDim |-> (hi[d] - lo[d]) \div 2 + TreeEps],
         center_of_mass |-> ZeroVec(NDim),
         number |-> 0, is_leaf |-> FALSE,
         children |-> [k \in 1..NSlots |-> 0]]

\* the child slot of point p under node: bit d is set iff p[d] > midpoint[d]
find_child(node, p) ==
    SumSeq([d \in 1..NDim |-> IF p[d] > node.midpoint[d] THEN Pow2(d - 1) ELSE 0])

\* mutant: the bits of the slot taken in the opposite order of dimensions
ChildBoundariesSwapped(parent, k) ==
    [midpoint |-> [d \in 1..NDim |->
                      IF Bit(k, NDim + 1 - d) = 1
                      THEN parent.midpoint[d] + parent.halfwidth[d] \div 2
                      ELSE parent.midpoint[d] - parent.halfwidth[d] \div 2],
     halfwidth |-> [d \in 1..NDim |-> parent.halfwidth[d] \div 2],
     center_of_mass |-> ZeroVec(NDim),
     number |-> 0, is_leaf |-> TRUE,
     children |-> [j \in 1..NSlots |-> 0]]

\* a new, empty leaf in slot k of parent: half the halfwidth, the midpoint
\* moved by it towards the slot's side in every dimension
ChildBoundaries(parent, k) ==
    [midpoint |-> [d \in 1..NDim |->
                      IF Bit(k, d) = 1
                      THEN parent.midpoint[d] + parent.halfwidth[d] \div 2
                      ELSE parent.midpoint[d] - parent.halfwidth[d] \div 2],
     halfwidth |-> [d \in 1..NDim |-> parent.halfwidth[d] \div 2],
     center_of_mass |-> ZeroVec(NDim),
     number |-> 0, is_leaf |-> TRUE,
     children |-> [j \in 1..NSlots |-> 0]]

\* slot k of node cur allocated at the end of the store if it was empty
WithChild(store, cur, k) ==
    IF Node(store, cur).children[k + 1] # 0 THEN store
    ELSE Append(SetNode(store, cur, [Node(store, cur) EXCEPT !.children[k + 1] = Len(store)]),
                ChildBoundaries(Node(store, cur), k))

\* mutant: a leaf at max_depth is split once more
CanSplitDeeper(depth, maxdepth) == depth <= maxdepth

\* mutant: splitting stops one level above max_depth
CanSplitShallow(depth, maxdepth) == depth + 1 < maxdepth

\* a non-empty leaf is turned into an internal node only above max_depth
CanSplit(depth, maxdepth) == depth < maxdepth

\* one more point in the leaf node
CountPoint(node) == [node EXCEPT !.number = @ + 1]

\* mutant: a point on its way down is not counted in the nodes it passes
CountBelowSkipped(node) == node

\* one more point below the internal node node
CountBelow(node) == [node EXCEPT !.number = @ + 1]

\* mutant: the incumbent keeps the location of the leaf that was split
RelocateSkipped(locations, m, i) == locations

\* the incumbent m of a leaf that was split now lives in node i
Relocate(locations, m, i) == [locations EXCEPT ![m] = i]

\* the leaf that the path of p from node cur ends in, -1 when it ends in an empty slot
RECURSIVE LeafOf(_, _, _)
LeafOf(store, p, cur) ==
    IF Node(store, cur).is_leaf THEN cur
    ELSE LET c == Node(store, cur).children[find_child(Node(store, cur), p) + 1]
         IN  IF c = 0 THEN -1 ELSE LeafOf(store, p, c)

\* the insertion of point n, arrived at node cur of depth depth
RECURSIVE Descend(_, _, _, _, _, _)
Descend(t, Yv, maxdepth, n, cur, depth) ==
    LET node == Node(t.store, cur)
    IN  IF node.is_leaf /\ node.number > 0 /\ CanSplit(depth, maxdepth)
        THEN \* demote: the incumbent goes to its child slot, then n goes on from here
             LET m == CHOOSE m \in 1..(n - 1) : LeafOf(t.store, Yv[m], 0) = cur
                 k == find_child(node, Yv[m])
                 s1 == WithChild(SetNode(t.store, cur, [node EXCEPT !.is_leaf = FALSE]), cur, k)
                 c == Node(s1, cur).children[k + 1]
                 s2 == SetNode(s1, c, CountPoint(Node(s1, c)))
             IN  Descend([store |-> s2, locations |-> Relocate(t.locations, m, c)],
                         Yv, maxdepth, n, cur, depth)
        ELSE IF node.is_leaf
        THEN \* append n to this leaf
             [store |-> SetNode(t.store, cur, CountPoint(node)),
              locations |-> [t.locations EXCEPT ![n] = cur]]
        ELSE \* internal: down into the slot of n, allocated when empty
             LET k == find_child(node, Yv[n])
                 s1 == WithChild(SetNode(t.store, cur, CountBelow(node)), cur, k)
             IN  Descend([t EXCEPT !.store = s1], Yv, maxdepth, n,
                         Node(s1, cur).children[k + 1], depth + 1)

RECURSIVE InsertAll(_, _, _, _)
InsertAll(t, Yv, maxdepth, n) ==
    IF n > Len(Yv) THEN t
    ELSE InsertAll(Descend(t, Yv, maxdepth, n, 0, 0), Yv, maxdepth, n + 1)

\* the center of mass of node i: the mean of the points of a leaf, the mean
\* of the children's centers weighted by their numbers otherwise
RECURSIVE CenterOfMass(_, _, _, _)
CenterOfMass(store, locations, Yv, i) ==
    LET node == Node(store, i)
    IN  IF node.is_leaf
        THEN [d \in 1..NDim |->
                 RoundDiv(SumSeq([m \in 1..Len(Yv) |->
                                     IF locations[m] = i THEN Yv[m][d] ELSE 0]),
                          node.number)]
        ELSE [d \in 1..NDim |->
                 RoundDiv(SumSeq([k \in 1..NSlots |->
                                     IF node.children[k] = 0 THEN 0
                                     ELSE Node(store, node.children[k]).number *
                                          CenterOfMass(store, locations, Yv, node.children[k])[d]]),
                          node.number)]

\* the pass after the insertions; the root keeps no center of mass
Summarize(t, Yv) ==
    [t EXCEPT !.store = [j \in 1..Len(t.store) |->
                            IF j = 1 THEN t.store[j]
                            ELSE [t.store[j] EXCEPT
                                     !.center_of_mass = CenterOfMass(t.store, t.locations, Yv, j - 1)]]]

\* SPTree::set(Y): the store cleared, the root, the points one by one, the centers
BuildTree(Yv, maxdepth) ==
    Summarize(InsertAll([store |-> <<RootNode(Yv)>>, locations |-> [n \in 1..Len(Yv) |-> 0]],
                        Yv, maxdepth, 1),
              Yv)

\* mutant: the length of the store is not reset, the root is written over node 0
ResetStoreSkipped(store) == store

\* the cheap reset of the store: its length back to 0
ResetStore(store) == <<>>

\* node 0 of the store made the root of the new build
WithRoot(store, root) == IF store = <<>> THEN <<root>> ELSE [store EXCEPT ![1] = root]

\* tree.set(Y) on a tree that may have been built before
set(t, Yv, maxdepth) ==
    Summarize(InsertAll([store |-> WithRoot(ResetStore(t.store), RootNode(Yv)),
                         locations |-> [n \in 1..Len(Yv) |-> 0]],
                        Yv, maxdepth, 1),
              Yv)

(***************************************************************************)
(* SPTree::compute_non_edge_forces(n, theta, neg_f).  A coordinate c       *)
(* stands for c / Fine; the sums are fixed-point numbers, Unit to 1.0.     *)
(* parts lists the summaries used: the node and the weight it was given.   *)
(***************************************************************************)
SqNorm(delta) == SumSeq([d \in 1..NDim |-> delta[d] * delta[d]])

\* q = 1 / (1 + r^2)
QOf(delta) == RoundDiv(Unit * Fine * Fine, Fine * Fine + SqNorm(delta))

\* q^2 * delta[d]
ForceOf(delta, d) == RoundDiv(FMul(QOf(delta), QOf(delta)) * delta[d], Fine)

\* w / sqrt(r^2) < theta, for theta = theta[1] / theta[2] and w the longest side
FarEnough(node, delta, theta) ==
    LET w == MaxOf({2 * node.halfwidth[d] : d \in 1..NDim})
    IN  /\ SqNorm(delta) > 0
        /\ w * w * theta[2] * theta[2] < theta[1] * theta[1] * SqNorm(delta)

\* mutant: the leaf of the point itself counts in full
SelfWeightFull(node, i, own) == node.number

\* the weight of node i as a summary: the point itself is taken out of its leaf
SelfWeight(node, i, own) == IF i = own THEN node.number - 1 ELSE node.number

RECURSIVE Flatten(_)
Flatten(seqs) == IF seqs = <<>> THEN <<>> ELSE Head(seqs) \o Flatten(Tail(seqs))

RECURSIVE Traverse(_, _, _, _, _)
Traverse(store, p, own, theta, i) ==
    LET node == Node(store, i)
        delta == [d \in 1..NDim |-> p[d] - node.center_of_mass[d]]
        below == [k \in 1..NSlots |->
                     IF node.children[k] = 0 THEN <<>>
                     ELSE Traverse(store, p, own, theta, node.children[k])]
        \* the children's parts, slot after slot
        joined == Flatten(below)
    IN  IF i = 0 THEN joined
        ELSE IF node.is_leaf \/ FarEnough(node, delta, theta)
        THEN IF SelfWeight(node, i, own) = 0 THEN <<>>
             ELSE <<[node |-> i, weight |-> SelfWeight(node, i, own), delta |-> delta]>>
        ELSE joined

compute_non_edge_forces(t, Yv, n, theta) ==
    LET parts == Traverse(t.store, Yv[n], t.locations[n], theta, 0)
    IN  [n |-> n, theta |-> theta,
         sum_Q |-> SumSeq([a \in 1..Len(parts) |-> parts[a].weight * QOf(parts[a].delta)]),
         neg_f |-> [d \in 1..NDim |->
                       SumSeq([a \in 1..Len(parts) |->
                                  parts[a].weight * ForceOf(parts[a].delta, d)])],
         parts |-> parts]

\* the tests' reference_non_edge_forces: every other point, one by one
reference_non_edge_forces(Yv, n) ==
    LET delta(m) == [d \in 1..NDim |-> Yv[n][d] - Yv[m][d]]
    IN  [sum_Q |-> SumSeq([m \in 1..Len(Yv) |-> IF m = n THEN 0 ELSE QOf(delta(m))]),
         neg_f |-> [d \in 1..NDim |->
                       SumSeq([m \in 1..Len(Yv) |-> IF m = n THEN 0 ELSE ForceOf(delta(m), d)])]]

(***************************************************************************)
(* The users of the tree: up to MaxN points on a few sites of the grid,    *)
(* some of them shared.  As in compute_gradient, set(Y) comes first and    *)
(* the questions after it.  In SpecRebuild a point moves to another site   *)
(* between two gradients, up to MaxBuilds builds of the same tree.         *)
(***************************************************************************)
TreeSites == {<<0, 0>>, <<Fine, 0>>, <<Fine, 2 * Fine>>, <<2 * Fine, Fine>>, <<2 * Fine, 2 * Fine>>}

TreeInputs == UNION {[1..N -> TreeSites] : N \in 1..MaxN}

ThetaChoices == {<<0, 1>>, <<1, 2>>}

MaxBuilds == 2

\* the points of a tree that is built again
MaxRebuilt == 2

InitTree ==
    /\ input = RingInput
    /\ phase = "start"
    /\ error = "none"
    /\ status = NoStatus
    /\ x = <<>>
    /\ mass = NoMass
    /\ cfg = BaseCfg
    /\ Y = <<>>
    /\ frame = IdleFrame
    /\ entry = NoEntry
    /\ used = NoneUsed
    /\ codec = NoCodec
    /\ tsne = NoTsne
    /\ stage = NoStage
    /\ search = NoSearch
    /\ reduction = NoReduction
    /\ interp = NoInterp
    /\ oracle = NoOracle
    /\ \E Yv \in TreeInputs, maxdepth \in 1..MaxTreeDepth :
          tree = [NoTree EXCEPT !.Y = Yv, !.maxdepth = maxdepth, !.phase = "new"]

SPTreeSet ==
    /\ tree.phase = "new"
    /\ LET t == set(tree, tree.Y, tree.maxdepth)
       IN  tree' = [tree EXCEPT !.store = t.store, !.locations = t.locations,
                                !.phase = "built", !.builds = @ + 1, !.result = NoResult]
    /\ UNCHANGED <<input, phase, error, status, x, mass, cfg, Y, frame, entry, used, oracle, interp, reduction, search, stage, tsne, codec>>

SPTreeForces ==
    /\ tree.phase = "built"
    /\ \E n \in 1..Len(tree.Y), theta \in ThetaChoices :
          tree' = [tree EXCEPT !.result = compute_non_edge_forces(tree, tree.Y, n, theta)]
    /\ UNCHANGED <<input, phase, error, status, x, mass, cfg, Y, frame, entry, used, oracle, interp, reduction, search, stage, tsne, codec>>

\* the update of Y at the end of an iteration: the tree of the gradient
\* before it is still in the store
MovePoints ==
    /\ tree.phase = "built"
    /\ tree.builds < MaxBuilds
    /\ \E n \in 1..Len(tree.Y), site \in TreeSites :
          /\ site # tree.Y[n]
          /\ tree' = [tree EXCEPT !.Y[n] = site, !.phase = "new", !.result = NoResult]
    /\ UNCHANGED <<input, phase, error, status, x, mass, cfg, Y, frame, entry, used, oracle, interp, reduction, search, stage, tsne, codec>>

NextTree == SPTreeSet \/ SPTreeForces

SpecTree == InitTree /\ [][NextTree]_vars

\* the same tree over several gradients, of up to MaxRebuilt points
InitRebuild == InitTree /\ Len(tree.Y) <= MaxRebuilt

NextRebuild == SPTreeSet \/ SPTreeForces \/ MovePoints

SpecRebuild == InitRebuild /\ [][NextRebuild]_vars

(***************************************************************************)
(* Properties of the tree.                                                 *)
(***************************************************************************)
\* the nodes met from node i of depth depth downwards, each with its depth
RECURSIVE Below(_, _, _)
Below(store, i, depth) ==
    {<<i, depth>>} \cup
    UNION {IF Node(store, i).children[k] = 0 THEN {}
           ELSE Below(store, Node(store, i).children[k], depth + 1) : k \in 1..NSlots}

\* C12: after SPTree construction no node lies deeper than max_depth, also
\* when several points have the same coordinates.
C12_DepthBounded ==
    tree.phase = "built" => \A nd \in Below(tree.store, 0, 0) : nd[2] <= tree.maxdepth

\* points that share a site, held together by a leaf at max_depth
C12_Witness ==
    /\ tree.phase = "built"
    /\ \E a, b \in 1..Len(tree.Y) : a # b /\ tree.Y[a] = tree.Y[b]
    /\ \E nd \in Below(tree.store, 0, 0) :
          /\ nd[2] = tree.maxdepth
          /\ tree.maxdepth > 1
          /\ Node(tree.store, nd[1]).number > 1

\* the nodes of the store that the root leads to
Reached(store) == {nd[1] : nd \in Below(store, 0, 0)}

DepthOf(store, i) == (CHOOSE nd \in Below(store, 0, 0) : nd[1] = i)[2]

ChildrenCount(store, node) ==
    SumSeq([k \in 1..NSlots |->
               IF node.children[k] = 0 THEN 0 ELSE Node(store, node.children[k]).number])

LeafCount(store) ==
    SumSeq([j \in 1..Len(store) |->
               IF (j - 1) \in Reached(store) /\ store[j].is_leaf THEN store[j].number ELSE 0])

\* C13: after SPTree construction every non-leaf node has a positive number
\* equal to the sum of the numbers of its non-empty children, every leaf
\* has all its child slots empty, and the numbers of the leaves that the
\* root leads to sum to N.
C13_Numbers ==
    tree.phase = "built" =>
        /\ \A i \in Reached(tree.store) :
              LET node == Node(tree.store, i)
              IN  IF node.is_leaf
                  THEN \A k \in 1..NSlots : node.children[k] = 0
                  ELSE node.number > 0 /\ node.number = ChildrenCount(tree.store, node)
        /\ LeafCount(tree.store) = Len(tree.Y)

\* a root with two children, an internal node below it, and a leaf of several points
C13_Witness ==
    /\ tree.phase = "built"
    /\ Len(tree.Y) = MaxN
    /\ \E k, j \in 1..NSlots :
          k # j /\ Node(tree.store, 0).children[k] # 0 /\ Node(tree.store, 0).children[j] # 0
    /\ \E i \in Reached(tree.store) \ {0} : ~Node(tree.store, i).is_leaf
    /\ \E i \in Reached(tree.store) : Node(tree.store, i).is_leaf /\ Node(tree.store, i).number > 1

\* C14: after SPTree construction, for every non-leaf node and non-empty
\* child slot k, the child's halfwidth is exactly half the parent's in every
\* dimension, and in every dimension d the child's midpoint is above the
\* parent's midpoint when bit d of k is set, below it otherwise, and strictly
\* inside the parent's box.
C14_ChildBoxes ==
    tree.phase = "built" =>
        \A i \in Reached(tree.store) : \A k \in 0..(NSlots - 1) :
            LET node == Node(tree.store, i)
                c == node.children[k + 1]
                child == Node(tree.store, c)
            IN  (~node.is_leaf /\ c # 0) =>
                    \A d \in 1..NDim :
                        /\ 2 * child.halfwidth[d] = node.halfwidth[d]
                        /\ Bit(k, d) = 1 => child.midpoint[d] > node.midpoint[d]
                        /\ Bit(k, d) = 0 => child.midpoint[d] < node.midpoint[d]
                        /\ child.midpoint[d] < node.midpoint[d] + node.halfwidth[d]
                        /\ child.midpoint[d] > node.midpoint[d] - node.halfwidth[d]

\* a node at max_depth in a slot whose two bits differ, under a parent that is not the root
C14_Witness ==
    /\ tree.phase = "built"
    /\ tree.maxdepth = MaxTreeDepth
    /\ \E i \in Reached(tree.store) \ {0} : \E k \in 0..(NSlots - 1) :
          /\ Bit(k, 1) # Bit(k, NDim)
          /\ Node(tree.store, i).children[k + 1] # 0
          /\ DepthOf(tree.store, Node(tree.store, i).children[k + 1]) = MaxTreeDepth

InBox(node, p) ==
    \A d \in 1..NDim :
        /\ p[d] <= node.midpoint[d] + node.halfwidth[d]
        /\ p[d] >= node.midpoint[d] - node.halfwidth[d]

\* C15: after a build the locations table has N entries, and for every
\* point n locations[n] is the index, greater than 0, of a leaf whose box
\* contains point n; when that leaf has number = 1 its center_of_mass is
\* the coordinates of point n.
C15_Locations ==
    tree.phase = "built" =>
        /\ Len(tree.locations) = Len(tree.Y)
        /\ \A n \in 1..Len(tree.Y) :
              /\ tree.locations[n] > 0
              /\ tree.locations[n] \in Reached(tree.store)
              /\ LET locale == Node(tree.store, tree.locations[n])
                 IN  /\ locale.is_leaf
                     /\ InBox(locale, tree.Y[n])
                     /\ locale.number = 1 => locale.center_of_mass = tree.Y[n]

\* the first point, moved out of the leaf it was first put in when that was split
C15_Witness ==
    /\ tree.phase = "built"
    /\ DepthOf(tree.store, tree.locations[1]) > 1
    /\ Node(tree.store, tree.locations[1]).number = 1

NoTruncate(store) == \A i \in Reached(store) : Node(store, i).is_leaf => Node(store, i).number = 1

\* C16: with theta = 0 and every leaf holding exactly one point, the
\* traversal for point n returns the Q_sum and neg_f of the sum over all
\* m # n of q = 1 / (1 + r^2) and q^2 (Y_n - Y_m): the leaf of every other
\* point is used exactly once with weight 1, the leaf of point n not at all.
C16_ExactAtThetaZero ==
    (/\ tree.phase = "built"
     /\ tree.result.n # 0
     /\ tree.result.theta[1] = 0
     /\ NoTruncate(tree.store)) =>
        LET res == tree.result
            ref == reference_non_edge_forces(tree.Y, res.n)
        IN  /\ res.sum_Q = ref.sum_Q
            /\ res.neg_f = ref.neg_f
            /\ Len(res.parts) = Len(tree.Y) - 1
            /\ \A m \in 1..Len(tree.Y) :
                  Cardinality({a \in 1..Len(res.parts) :
                                  res.parts[a].node = tree.locations[m] /\ res.parts[a].weight = 1})
                      = IF m = res.n THEN 0 ELSE 1

\* MaxN points apart, one of them separated from another only at max_depth
C16_Witness ==
    /\ tree.phase = "built"
    /\ tree.result.n # 0
    /\ tree.result.theta[1] = 0
    /\ NoTruncate(tree.store)
    /\ Len(tree.Y) = MaxN
    /\ DepthOf(tree.store, tree.locations[tree.result.n]) = MaxTreeDepth
    /\ tree.result.sum_Q > 0
    /\ \E d \in 1..NDim : tree.result.neg_f[d] # 0

(***************************************************************************)
(* The interpolator, interpolate::compute_non_edge_forces.  Coordinates    *)
(* are integers; a step is kept as the span maxs[d] - mins[d], the code's  *)
(* step being span / intervals, so that the cell of a point is computed    *)
(* without rounding.  The std::unordered_map waypoints is a function from  *)
(* hashes to values.  The OpenMP variant of the function does not compile  *)
(* (it names h outside its scope), so only the serial variant is a build.  *)
(***************************************************************************)
MaxPts == 2

InterpDims == {1, 2, 3}

IntervalChoices == {1, 2}

GridValues == {0, 1, 3}

MissingWaypoint == -1

UnsupportedError == "interpolation is not yet supported for ndim != 2"

\* What a call of a value-returning function that flows off its end can do:
\* the behaviour is undefined, builds either return to the caller with an
\* indeterminate value (which the callers here ignore) or stop the program.
FlowOffEnd == {"returns", "aborts"}

Min2(a, b) == IF a <= b THEN a ELSE b

Limits(Yv, ndim) ==
    [mins |-> [d \in 1..ndim |-> MinOf({Yv[i][d] : i \in 1..Len(Yv)})],
     maxs |-> [d \in 1..ndim |-> MaxOf({Yv[i][d] : i \in 1..Len(Yv)})]]

Step(lim, ndim) == [d \in 1..ndim |-> lim.maxs[d] - lim.mins[d]]

encode(data, mins, step, intervals) ==
    [d \in DOMAIN data |->
        Min2(IF step[d] = 0 THEN 0 ELSE ((data[d] - mins[d]) * intervals) \div step[d],
             intervals - 1)]

RECURSIVE HashFrom(_, _, _, _)
HashFrom(index, intervals, d, counter) ==
    IF d > Len(index) THEN counter
    ELSE HashFrom(index, intervals, d + 1, counter * (intervals + 1) + index[d])

\* mutant: counter *= intervals, no room for the index of the upper vertices
hash_without_corners(index, intervals) == HashFrom(index, intervals - 1, 1, 0)

hash(index, intervals) == HashFrom(index, intervals, 1, 0)

Shifts(ndim) == [1..ndim -> {0, 1}] \ {[d \in 1..ndim |-> 0]}

\* unhash(hash, intervals) to lattice indices: filled from the last dimension
RECURSIVE UnhashFrom(_, _, _, _)
UnhashFrom(h, intervals, d, current) ==
    IF d = Len(current) THEN current
    ELSE UnhashFrom(h \div (intervals + 1), intervals, d + 1,
                    [current EXCEPT ![Len(current) - d] = h % (intervals + 1)])

unhash(h, intervals, ndim) == UnhashFrom(h, intervals, 0, [d \in 1..ndim |-> 0])

\* mutant: fill marks a corner as missing whether or not it is there already
populate_corners_overwriting(collected, current, intervals) ==
    LET ndim == Len(current)
        corners == {hash([d \in 1..ndim |-> current[d] + b[d]], intervals) : b \in Shifts(ndim)}
    IN  [h \in DOMAIN collected \cup corners |->
            IF h \in corners THEN MissingWaypoint ELSE collected[h]]

populate_corners(collected, current, intervals) ==
    LET ndim == Len(current)
        corners == {hash([d \in 1..ndim |-> current[d] + b[d]], intervals) : b \in Shifts(ndim)}
    IN  [h \in DOMAIN collected \cup corners |->
            IF h \in DOMAIN collected THEN collected[h] ELSE MissingWaypoint]

RECURSIVE Discover(_, _, _, _, _, _)
Discover(waypoints, Yv, i, mins, step, intervals) ==
    IF i > Len(Yv) THEN waypoints
    ELSE LET current == encode(Yv[i], mins, step, intervals)
             counter == hash(current, intervals)
             found == counter \in DOMAIN waypoints
             redo == ~found \/ waypoints[counter] # 0
             marked == [h \in DOMAIN waypoints \cup {counter} |->
                           IF h = counter THEN 0 ELSE waypoints[h]]
         IN  Discover(IF redo THEN populate_corners(marked, current, intervals) ELSE marked,
                      Yv, i + 1, mins, step, intervals)

\* the waypoints as the first pass leaves them
FirstPass(call) ==
    LET lim == Limits(call.Y, call.ndim)
    IN  Discover(<<>>, call.Y, 1, lim.mins, Step(lim, call.ndim), call.intervals)

RECURSIVE SortedSeq(_)
SortedSeq(S) == IF S = {} THEN <<>> ELSE <<MinOf(S)>> \o SortedSeq(S \ {MinOf(S)})

Rotate(s, r) == [i \in 1..Len(s) |-> s[((i - 1 + r) % Len(s)) + 1]]

Reverse(s) == [i \in 1..Len(s) |-> s[Len(s) + 1 - i]]

\* Orders in which a loop over a std::unordered_map may meet its keys: the
\* order is unspecified; the model takes the rotations of the sorted keys,
\* forwards and backwards.
IterationOrders(S) ==
    IF S = {} THEN {<<>>}
    ELSE {Rotate(SortedSeq(S), r) : r \in 0..(Cardinality(S) - 1)}
             \cup {Reverse(Rotate(SortedSeq(S), r)) : r \in 0..(Cardinality(S) - 1)}

\* mutant: the entry is inserted before the size is read
has_zero_assign_inserted_first(has_zero, h) ==
    [k \in DOMAIN has_zero \cup {h} |->
        IF k = h THEN Cardinality(DOMAIN has_zero \cup {h}) ELSE has_zero[k]]

\* has_zero[h] = has_zero.size(): the right operand of the assignment is
\* evaluated before the left one (C++17, the standard of the build), so the
\* size is read before operator[] inserts h
has_zero_assign(has_zero, h) ==
    [k \in DOMAIN has_zero \cup {h} |->
        IF k = h THEN Cardinality(DOMAIN has_zero) ELSE has_zero[k]]

\* the loop of the second pass from position i of order on; the code's i is i - 1
RECURSIVE SecondPass(_, _, _)
SecondPass(order, i, acc) ==
    IF i > Len(order) THEN acc
    ELSE LET h == order[i]
         IN  SecondPass(order, i + 1,
                        [has_zero |-> IF acc.waypoints[h] = 0
                                      THEN has_zero_assign(acc.has_zero, h)
                                      ELSE acc.has_zero,
                         waypoints |-> [acc.waypoints EXCEPT ![h] = i - 1]])

nvalues == NDim + 1

ncorners == Pow2(NDim)

blocksize == ncorners * nvalues

\* map[key] of a std::unordered_map<size_t, size_t>: 0 for a key that was absent
At(map, key) == IF key \in DOMAIN map THEN map[key] ELSE 0

\* the third pass: the slots of interpolants written for the anchors
FillOffsets(has_zero) ==
    {has_zero[h] * blocksize + d * ncorners + c :
        h \in DOMAIN has_zero, d \in 0..NDim, c \in 0..(ncorners - 1)}

\* the third pass: the slots of collected read for the vertices of the anchors
CollectedReads(has_zero, waypoints, intervals) ==
    {nvalues * At(waypoints, hash([e \in 1..NDim |-> unhash(h, intervals, NDim)[e] + b[e]],
                                      intervals)) + d :
        h \in DOMAIN has_zero, b \in [1..NDim -> {0, 1}], d \in 0..NDim}

\* the final pass: the slots of interpolants read for the points
EvalOffsets(call, has_zero) ==
    LET lim == Limits(call.Y, call.ndim)
    IN  {At(has_zero, hash(encode(call.Y[i], lim.mins, Step(lim, call.ndim), call.intervals),
                           call.intervals)) * blocksize + d * ncorners + c :
            i \in 1..Len(call.Y), d \in 0..NDim, c \in 0..(ncorners - 1)}

interpolate_compute_non_edge_forces(call, off, order) ==
    LET N == Len(call.Y)
        waypoints == FirstPass(call)
        second == SecondPass(order, 1, [has_zero |-> <<>>, waypoints |-> waypoints])
    IN  IF N > 0 /\ off = "aborts"
        THEN [call EXCEPT !.pc = "aborted"]
        ELSE IF call.ndim # 2
        THEN [call EXCEPT !.pc = "thrown", !.error = UnsupportedError,
                          !.waypoints = waypoints,
                          !.visits = Cardinality(DOMAIN waypoints)]
        ELSE [call EXCEPT !.pc = "returned", !.waypoints = waypoints,
                          !.visits = Cardinality(DOMAIN waypoints),
                          !.has_zero = second.has_zero,
                          !.numbered = second.waypoints,
                          !.interpolants = blocksize * Cardinality(DOMAIN second.has_zero),
                          !.filled = FillOffsets(second.has_zero),
                          !.collected = CollectedReads(second.has_zero, second.waypoints,
                                                       call.intervals),
                          !.evaluated = EvalOffsets(call, second.has_zero)]

InterpInputs(ndim) == UNION {[1..N -> [1..ndim -> GridValues]] : N \in 0..MaxPts}

InitInterp ==
    /\ input = RingInput
    /\ phase = "start"
    /\ error = "none"
    /\ status = NoStatus
    /\ x = <<>>
    /\ mass = NoMass
    /\ cfg = BaseCfg
    /\ Y = <<>>
    /\ frame = IdleFrame
    /\ entry = NoEntry
    /\ used = NoneUsed
    /\ codec = NoCodec
    /\ tsne = NoTsne
    /\ stage = NoStage
    /\ search = NoSearch
    /\ reduction = NoReduction
    /\ oracle = NoOracle
    /\ tree = NoTree
    /\ \E ndim \in InterpDims, intervals \in IntervalChoices :
         \E Yv \in InterpInputs(ndim) :
            interp = [NoInterp EXCEPT !.ndim = ndim, !.Y = Yv,
                                      !.intervals = intervals, !.pc = "called"]

InterpolateCall ==
    /\ interp.pc = "called"
    /\ \E off \in FlowOffEnd :
         \E order \in IF interp.ndim = 2 THEN IterationOrders(DOMAIN FirstPass(interp))
                       ELSE {SortedSeq(DOMAIN FirstPass(interp))} :
            interp' = interpolate_compute_non_edge_forces(interp, off, order)
    /\ UNCHANGED <<input, phase, error, status, x, mass, cfg, Y, frame, entry, used, oracle, tree, reduction, search, stage, tsne, codec>>

NextInterp == InterpolateCall

SpecInterp == InitInterp /\ [][NextInterp]_vars

\* C17: a call of the interpolator with ndim other than 2 ends by throwing
\* the "not yet supported" error and returns no sum; a call with ndim 2
\* never throws it.
C17_ExplicitError ==
    interp.pc \in {"returned", "thrown", "aborted"} =>
        /\ interp.ndim # 2 => interp.pc = "thrown" /\ interp.error = UnsupportedError
        /\ interp.ndim = 2 => interp.pc # "thrown" /\ interp.error # UnsupportedError

(***************************************************************************)
(* The repulsion stage of compute_gradient as built with OpenMP: the       *)
(* iterations n of the parallel loop are dealt to the workers, each writes *)
(* omp_buffer[n], and std::accumulate runs behind the barrier that ends    *)
(* the loop.  Sums are floating-point sums: a double keeps 53 significant  *)
(* bits, the model keeps Mantissa of them and rounds to nearest, ties to   *)
(* even, so that the order of a sum matters as it does in the code.        *)
(***************************************************************************)
MaxWorkers == 2

Mantissa == 3

QValues == {1, 8}

RECURSIVE Ulp(_, _)
Ulp(v, u) == IF v < u * Pow2(Mantissa) THEN u ELSE Ulp(v, 2 * u)

RoundNearestEven(v) ==
    LET u == Ulp(v, 1)
        k == v \div u
        r == v % u
    IN  IF 2 * r < u THEN k * u
        ELSE IF 2 * r > u THEN (k + 1) * u
        ELSE IF k % 2 = 0 THEN k * u ELSE (k + 1) * u

FloatAdd(a, b) == RoundNearestEven(a + b)

RECURSIVE SumInOrder(_, _, _)
SumInOrder(buf, order, init) ==
    IF order = <<>> THEN init
    ELSE SumInOrder(buf, Tail(order), FloatAdd(init, buf[Head(order)]))

IndexOrder(N) == [n \in 1..N |-> n]

accumulate_completion_order(r) == SumInOrder(r.omp_buffer, r.order, 0)

accumulate(r) == SumInOrder(r.omp_buffer, IndexOrder(Len(r.omp_buffer)), 0)

sum_Q_serial(q) == SumInOrder(q, IndexOrder(Len(q)), 0)

InitReduction ==
    /\ input = RingInput
    /\ phase = "start"
    /\ error = "none"
    /\ status = NoStatus
    /\ x = <<>>
    /\ mass = NoMass
    /\ cfg = BaseCfg
    /\ Y = <<>>
    /\ frame = IdleFrame
    /\ entry = NoEntry
    /\ used = NoneUsed
    /\ codec = NoCodec
    /\ tsne = NoTsne
    /\ stage = NoStage
    /\ search = NoSearch
    /\ interp = NoInterp
    /\ oracle = NoOracle
    /\ tree = NoTree
    /\ \E N \in 1..MaxN :
         \E q \in [1..N -> QValues], owner \in [1..N -> 1..MaxWorkers],
            old \in {[n \in 1..N |-> 0], [n \in 1..N |-> 8]} :
            reduction = [NoReduction EXCEPT !.N = N, !.q = q, !.owner = owner,
                                            !.omp_buffer = old, !.pc = "parallel"]

\* One iteration n of the parallel loop, run by the worker it was dealt to.
ParallelIteration(w) ==
    /\ reduction.pc = "parallel"
    /\ \E n \in 1..reduction.N :
         /\ reduction.owner[n] = w
         /\ n \notin reduction.done
         /\ reduction' = [reduction EXCEPT !.omp_buffer[n] = reduction.q[n],
                                           !.done = @ \cup {n},
                                           !.order = Append(@, n)]
    /\ UNCHANGED <<input, phase, error, status, x, mass, cfg, Y, frame, entry, used, oracle, tree, interp, search, stage, tsne, codec>>

\* The barrier at the end of the parallel loop, then std::accumulate.
Accumulate ==
    /\ reduction.pc = "parallel"
    /\ reduction.done = 1..reduction.N
    /\ reduction' = [reduction EXCEPT !.pc = "summed", !.sum_Q = accumulate(reduction)]
    /\ UNCHANGED <<input, phase, error, status, x, mass, cfg, Y, frame, entry, used, oracle, tree, interp, search, stage, tsne, codec>>

NextReduction ==
    \/ \E w \in 1..MaxWorkers : ParallelIteration(w)
    \/ Accumulate

SpecReduction == InitReduction /\ [][NextReduction]_vars

\* C18: each finished iteration n has written its own Q into slot n of the
\* buffer of N slots, the sum is taken only when every iteration has
\* finished, and it is the sum of the slots in index order: the sum the
\* serial loop computes, whatever the interleaving and the assignment of
\* points to workers were.
C18_OrderedReduction ==
    /\ Len(reduction.omp_buffer) = reduction.N
    /\ \A n \in reduction.done : reduction.omp_buffer[n] = reduction.q[n]
    /\ reduction.pc = "summed" =>
          /\ reduction.done = 1..reduction.N
          /\ reduction.sum_Q = sum_Q_serial(reduction.q)

C18_Witness ==
    /\ reduction.pc = "summed"
    /\ reduction.N = MaxN
    /\ reduction.order # IndexOrder(reduction.N)
    /\ {reduction.owner[n] : n \in 1..reduction.N} = 1..MaxWorkers
    /\ SumInOrder(reduction.q, reduction.order, 0) # reduction.sum_Q
    /\ \E n \in 1..reduction.N : reduction.q[n] # 8

(***************************************************************************)
(* The bandwidth search of compute_gaussian_perplexity for one row.        *)
(*                                                                         *)
(* A double is a pair <<m, e>> standing for m * 2^e, m odd or 0.  Every    *)
(* finite double is below 2^MaxExp; max_value (the largest of them) is     *)
(* written <<1, MaxExp>> and +Inf <<1, MaxExp + 1>>, which keeps their     *)
(* order; a product or a sum that reaches 2^MaxExp is +Inf.  NotANumber    *)
(* compares false with everything.                                         *)
(*                                                                         *)
(* exp and log are not computed.  A row is one of a few rows of finite,    *)
(* ascending distances, and what the evaluation of lines 386-405 finds at  *)
(* the values of beta the search visits (the sign of diff, whether d1 is   *)
(* zero, alt_beta) is tabulated from the run of the loop on that row, with *)
(* the doubles rounded to nearby pairs.  The weights of the row are 1 for  *)
(* the first entry and for a distance equal to the first, 0 once           *)
(* exp(-beta * s) underflows, and 1/2 for every other entry.               *)
(***************************************************************************)
IterCap == 200

MaxExp == 1024

DoubleBits == 53

max_value == <<1, MaxExp>>

Infinity == <<1, MaxExp + 1>>

NotANumber == <<0, 1>>

RECURSIVE BitLen(_)
BitLen(m) == IF m = 0 THEN 0 ELSE 1 + BitLen(m \div 2)

RECURSIVE Dy(_, _)
Dy(m, e) == IF m = 0 THEN <<0, 0>> ELSE IF m % 2 = 0 THEN Dy(m \div 2, e + 1) ELSE <<m, e>>

Top(v) == v[2] + BitLen(Abs(v[1]))

Less(a, b) ==
    IF a = NotANumber \/ b = NotANumber THEN FALSE
    ELSE IF a[1] <= 0 \/ b[1] <= 0
    THEN IF a[1] < 0 /\ b[1] < 0
         THEN IF Top(a) # Top(b) THEN Top(a) > Top(b)
              ELSE LET e0 == Min2(a[2], b[2])
                   IN  a[1] * Pow2(a[2] - e0) < b[1] * Pow2(b[2] - e0)
         ELSE a[1] < b[1]
    ELSE IF Top(a) # Top(b) THEN Top(a) < Top(b)
    ELSE LET e0 == Min2(a[2], b[2])
         IN  a[1] * Pow2(a[2] - e0) < b[1] * Pow2(b[2] - e0)

Overflowed(v) == IF Top(v) > MaxExp THEN Infinity ELSE v

Plus(a, b) ==
    IF a = Infinity \/ b = Infinity THEN Infinity
    ELSE IF a[1] = 0 THEN b
    ELSE IF b[1] = 0 THEN a
    ELSE IF Top(a) - Top(b) > DoubleBits THEN a
    ELSE IF Top(b) - Top(a) > DoubleBits THEN b
    ELSE LET e0 == Min2(a[2], b[2])
         IN  Overflowed(Dy(a[1] * Pow2(a[2] - e0) + b[1] * Pow2(b[2] - e0), e0))

Halved(v) == IF v = Infinity \/ v[1] = 0 THEN v ELSE <<v[1], v[2] - 1>>

Doubled(v) == IF v = Infinity \/ v[1] = 0 THEN v ELSE Overflowed(<<v[1], v[2] + 1>>)

Rows == {"ties", "far", "tiesfar", "regular", "bracket"}

\* the squared distances of a row less the first one: zero or positive
SquaredDelta(row) ==
    CASE row = "ties"    -> <<"zero", "zero", "zero">>
      [] row = "far"     -> <<"zero", "positive">>
      [] row = "tiesfar" -> <<"zero", "zero", "positive">>
      [] row = "regular" -> <<"zero", "positive", "positive", "positive">>
      [] row = "bracket" -> <<"zero", "positive", "positive", "positive">>

\* the beta at which the entropy of the row is log_perplexity, if any
Root(row) ==
    CASE row = "regular" -> <<393, -7>>
      [] row = "bracket" -> <<139, -11>>
      [] OTHER           -> Infinity

\* the beta from which exp(-beta * s) is 0 for every positive s of the row
Underflow(row) ==
    CASE row = "far"     -> <<1, 845>>
      [] row = "tiesfar" -> <<1, 991>>
      [] OTHER           -> max_value

\* alt_beta where d1 is not zero
NewtonTable(row) ==
    CASE row = "ties"    -> <<>>
      [] row = "far"     -> (<<1, 0>> :> <<1, 845>>)
      [] row = "tiesfar" -> (<<1, 0>> :> <<1, 991>>)
      [] row = "regular" -> (<<1, 0>> :> <<13, -2>>) @@ (<<13, -2>> :> <<3, 0>>)
                            @@ (<<3, 0>> :> <<49, -4>>) @@ (<<49, -4>> :> <<393, -7>>)
      [] row = "bracket" -> (<<1, 0>> :> <<-5, 30>>) @@ (<<1, -1>> :> <<-3, 13>>)
                            @@ (<<1, -2>> :> <<-13, -1>>) @@ (<<1, -3>> :> <<1, -10>>)
                            @@ (<<1, -10>> :> <<9, -4>>) @@ (<<257, -11>> :> <<-1, -11>>)
                            @@ (<<259, -12>> :> <<277, -12>>) @@ (<<277, -12>> :> <<139, -11>>)

Weight(kind, row, m, beta) ==
    IF m = 1 THEN Rat(1, 1)
    ELSE IF kind = "zero" THEN (IF beta = Infinity THEN NaN ELSE Rat(1, 1))
    ELSE IF beta = Infinity \/ ~Less(beta, Underflow(row)) THEN Rat(0, 1)
    ELSE Rat(1, 2)

\* lines 386-405: output, sum_P, diff, d1 and alt_beta at beta
Evaluate(row, beta) ==
    LET s == SquaredDelta(row)
        output == [m \in 1..Len(s) |-> Weight(s[m], row, m, beta)]
        table == NewtonTable(row)
    IN  [output |-> output,
         sum_P  |-> RSum(output),
         diff   |-> IF beta = Infinity THEN "nan"
                    ELSE IF beta = Root(row) THEN "tol"
                    ELSE IF Less(beta, Root(row)) THEN "positive" ELSE "negative",
         d1     |-> IF beta = Infinity THEN "nan"
                    ELSE IF beta \in DOMAIN table THEN "nonzero" ELSE "zero",
         alt_beta |-> IF beta = Infinity THEN NotANumber
                      ELSE IF beta \in DOMAIN table THEN table[beta] ELSE beta]

nr_ok(sr, ev) ==
    /\ ev.d1 # "zero"
    /\ Less(sr.min_beta, ev.alt_beta)
    /\ Less(ev.alt_beta, sr.max_beta)

InitSearch ==
    /\ input = RingInput
    /\ phase = "start"
    /\ error = "none"
    /\ status = NoStatus
    /\ x = <<>>
    /\ mass = NoMass
    /\ cfg = BaseCfg
    /\ Y = <<>>
    /\ frame = IdleFrame
    /\ entry = NoEntry
    /\ used = NoneUsed
    /\ codec = NoCodec
    /\ tsne = NoTsne
    /\ stage = NoStage
    /\ reduction = NoReduction
    /\ interp = NoInterp
    /\ oracle = NoOracle
    /\ tree = NoTree
    /\ \E row \in Rows :
         search = [NoSearch EXCEPT !.row = row, !.pc = "loop", !.beta = <<1, 0>>,
                                   !.min_beta = <<0, 0>>, !.max_beta = max_value,
                                   !.output = [m \in 1..Len(SquaredDelta(row)) |->
                                                  IF m = 1 THEN Rat(1, 1) ELSE Rat(0, 1)],
                                   !.sum_P = Rat(0, 1)]

Evaluated(sr, ev) ==
    [sr EXCEPT !.iter = @ + 1, !.evals = @ + 1, !.output = ev.output, !.sum_P = ev.sum_P]

\* an iteration that meets the tolerance: break
SearchBreak ==
    /\ search.pc = "loop" /\ search.iter < IterCap
    /\ LET ev == Evaluate(search.row, search.beta)
       IN  /\ ev.diff = "tol"
           /\ search' = [Evaluated(search, ev) EXCEPT !.pc = "exit", !.step = "break",
                                                      !.converged = TRUE]
    /\ UNCHANGED <<input, phase, error, status, x, mass, cfg, Y, frame, entry, used, oracle, tree, interp, reduction, stage, tsne, codec>>

\* an iteration that accepts the Newton-Raphson candidate
SearchNewton ==
    /\ search.pc = "loop" /\ search.iter < IterCap
    /\ LET ev == Evaluate(search.row, search.beta)
       IN  /\ ev.diff # "tol"
           /\ nr_ok(search, ev)
           /\ search' = [Evaluated(search, ev) EXCEPT !.beta = ev.alt_beta, !.step = "newton"]
    /\ UNCHANGED <<input, phase, error, status, x, mass, cfg, Y, frame, entry, used, oracle, tree, interp, reduction, stage, tsne, codec>>

\* an iteration that falls back to the binary search
SearchBisect ==
    /\ search.pc = "loop" /\ search.iter < IterCap
    /\ LET ev == Evaluate(search.row, search.beta)
       IN  /\ ev.diff # "tol"
           /\ ~nr_ok(search, ev)
           /\ search' =
                IF ev.diff = "positive"
                THEN [Evaluated(search, ev) EXCEPT
                         !.min_beta = search.beta,
                         !.beta = IF search.max_beta = max_value THEN Doubled(search.beta)
                                  ELSE Halved(Plus(search.beta, search.max_beta)),
                         !.step = "bisect_min"]
                ELSE [Evaluated(search, ev) EXCEPT
                         !.max_beta = search.beta,
                         !.beta = Halved(Plus(search.beta, search.min_beta)),
                         !.step = "bisect_max"]
    /\ UNCHANGED <<input, phase, error, status, x, mass, cfg, Y, frame, entry, used, oracle, tree, interp, reduction, stage, tsne, codec>>

\* after the loop: the row is divided by sum_P
RowNormalize ==
    /\ search.pc = "exit" \/ (search.pc = "loop" /\ search.iter = IterCap)
    /\ search' = [search EXCEPT !.pc = "done", !.step = "normalize",
                     !.output = [m \in DOMAIN search.output |->
                                    RDiv(search.output[m], search.sum_P)]]
    /\ UNCHANGED <<input, phase, error, status, x, mass, cfg, Y, frame, entry, used, oracle, tree, interp, reduction, stage, tsne, codec>>

NextSearch ==
    \/ SearchBreak
    \/ SearchNewton
    \/ SearchBisect
    \/ RowNormalize

SpecSearch == InitSearch /\ [][NextSearch]_vars

\* C19: the search of a row evaluates the entropy at most 200 times; a row
\* whose search never met the tolerance raises no error and is divided by
\* its sum, so that it sums to 1.
C19_CapAndNormalize ==
    /\ search.evals <= IterCap
    /\ search.pc = "done" /\ ~search.converged =>
          /\ error = "none"
          /\ RSum(search.output) = Rat(1, 1)

\* C20: at every entropy evaluation min_beta < beta < max_beta; a Newton
\* step is taken only with a non-zero derivative and a candidate strictly
\* inside the bounds, and leaves them; a bisection moves exactly one bound
\* to the old beta, min_beta when the entropy is above the target and
\* max_beta otherwise; min_beta never decreases, max_beta never increases.
C20_BetaBounds ==
    /\ [](search.pc = "loop" /\ search.iter < IterCap =>
             Less(search.min_beta, search.beta) /\ Less(search.beta, search.max_beta))
    /\ [][LET ev == Evaluate(search.row, search.beta)
          IN  /\ search'.step = "newton" =>
                    /\ ev.d1 # "zero"
                    /\ search'.beta = ev.alt_beta
                    /\ Less(search.min_beta, search'.beta)
                    /\ Less(search'.beta, search.max_beta)
                    /\ search'.min_beta = search.min_beta
                    /\ search'.max_beta = search.max_beta
              /\ search'.step = "bisect_min" =>
                    /\ ev.diff = "positive"
                    /\ search'.min_beta = search.beta
                    /\ search'.max_beta = search.max_beta
              /\ search'.step = "bisect_max" =>
                    /\ ev.diff # "positive"
                    /\ search'.max_beta = search.beta
                    /\ search'.min_beta = search.min_beta
              /\ ~Less(search'.min_beta, search.min_beta)
              /\ ~Less(search.max_beta, search'.max_beta)]_vars

(***************************************************************************)
(* Further properties of the affinity builder.                             *)
(***************************************************************************)
\* the points j that are neighbors of i in the input, or have i as a neighbor
Linked(in, i) ==
    {in.nn_index[i][k] : k \in 1..in.K}
        \cup {j \in 1..in.N : \E k \in 1..in.K : in.nn_index[j][k] = i}

ExactlyOnce(row, S) ==
    /\ Len(row) = Cardinality(S)
    /\ {row[k] : k \in 1..Len(row)} = S

\* C21: for input rows of distinct indices without self-edges, row i of the
\* symmetrized matrix holds one entry for each j that is a neighbor of i or
\* has i as a neighbor, and nothing else, after initialize and after
\* symmetrize_matrix on a NeighborList.
C21_ExactEntries ==
    /\ (phase = "initialized" /\ ValidInput(input))
          => \A i \in 1..input.N : ExactlyOnce(status.neighbors[i], Linked(input, i))
    /\ (phase = "symmetrized" /\ ValidInput(input))
          => \A i \in 1..input.N : ExactlyOnce(ListIndices(x)[i], Linked(input, i))

C21_Witness ==
    /\ phase = "symmetrized"
    /\ ValidInput(input)
    /\ input.N = MaxN
    /\ HasMutual(input)
    /\ HasOneSided(input)
    /\ \E i \in 1..input.N : Len(x[i]) > input.K
    /\ \E i \in 1..input.N : Len(x[i]) = input.K

\* the points that the locations table puts in node i
PointsAt(locations, i) == {n \in 1..Len(locations) : locations[n] = i}

\* C22: after SPTree construction a leaf holds more than one point only at
\* depth max_depth: a non-empty leaf above max_depth that a point reached
\* was turned into an internal node and its incumbent moved into a child,
\* so every leaf above max_depth has number = 1 and no two points share it.
C22_MultiLeafOnlyAtMaxDepth ==
    tree.phase = "built" =>
        \A i \in Reached(tree.store) \ {0} :
            LET node == Node(tree.store, i)
            IN  node.is_leaf =>
                    /\ node.number = Cardinality(PointsAt(tree.locations, i))
                    /\ node.number > 1 => DepthOf(tree.store, i) = tree.maxdepth
                    /\ DepthOf(tree.store, i) < tree.maxdepth => node.number = 1

\* a leaf that was split above max_depth, its two points together again in
\* a leaf at max_depth, and a leaf of one point above max_depth
C22_Witness ==
    /\ tree.phase = "built"
    /\ tree.maxdepth = MaxTreeDepth
    /\ \E i, j, l \in Reached(tree.store) \ {0} :
          /\ ~Node(tree.store, i).is_leaf
          /\ j \in {Node(tree.store, i).children[k] : k \in 1..NSlots}
          /\ Node(tree.store, j).is_leaf /\ Node(tree.store, j).number > 1
          /\ DepthOf(tree.store, j) = tree.maxdepth
          /\ Node(tree.store, l).is_leaf /\ Node(tree.store, l).number = 1
          /\ DepthOf(tree.store, l) < tree.maxdepth

StaleValues == {0, 7}

StageY(N) == [n \in 1..N |-> <<n, n * n>>]

\* cur_col = col_P[n]
cur_col(N, n) == {m \in 1..N : m # n}

\* self[d] of Y + n * ndim
self(n, d) == (n - 1) * NDim + d

\* mutant: pos_f.data() + n
pos_out_unscaled(n, d) == (n - 1) + d

\* pos_out[d] of pos_f.data() + n * ndim
pos_out(n, d) == (n - 1) * NDim + d

\* neg_f.data() + n * ndim, slot d
neg_out(n, d) == (n - 1) * NDim + d

\* the sum over cur_col of self[d] - neighbor[d]
EdgeForce(Yv, n, d) ==
    SumSeq([m \in 1..Len(Yv) |-> IF m \in cur_col(Len(Yv), n) THEN Yv[n][d] - Yv[m][d] ELSE 0])

Access(st, n, kind, array, slot) ==
    [stage |-> st, worker |-> stage.owner[n], n |-> n, kind |-> kind, loc |-> <<array, slot>>]

\* what iteration n of the loop of compute_edge_forces touches
EdgeAccesses(n) ==
    {Access("edge", n, "read", "P", n)}
        \cup {Access("edge", n, "read", "Y", self(m, d)) : m \in cur_col(stage.N, n) \cup {n}, d \in 1..NDim}
        \cup {Access("edge", n, kind, "pos_f", pos_out(n, d)) : kind \in {"read", "write"}, d \in 1..NDim}

\* what iteration n of the loop over the tree touches
TreeAccesses(n) ==
    {Access("tree", n, "read", "tree", 0), Access("tree", n, "write", "omp_buffer", n)}
        \cup {Access("tree", n, "read", "Y", self(m, d)) : m \in 1..stage.N, d \in 1..NDim}
        \cup {Access("tree", n, kind, "neg_f", neg_out(n, d)) : kind \in {"read", "write"}, d \in 1..NDim}

\* array after the += of iteration n through the pointer out
Accumulated(array, out, Yv, n) ==
    [i \in 1..Len(array) |->
        array[i] + SumSeq([d \in 1..NDim |-> IF out[d] = i THEN EdgeForce(Yv, n, d) ELSE 0])]

InitStage ==
    /\ input = RingInput
    /\ phase = "start"
    /\ error = "none"
    /\ status = NoStatus
    /\ x = <<>>
    /\ mass = NoMass
    /\ cfg = BaseCfg
    /\ Y = <<>>
    /\ frame = IdleFrame
    /\ entry = NoEntry
    /\ used = NoneUsed
    /\ codec = NoCodec
    /\ tsne = NoTsne
    /\ search = NoSearch
    /\ interp = NoInterp
    /\ oracle = NoOracle
    /\ tree = NoTree
    /\ reduction = NoReduction
    /\ \E N \in 1..MaxN :
         \E owner \in [1..N -> 1..MaxWorkers], old \in StaleValues :
            stage = [NoStage EXCEPT !.N = N, !.Y = StageY(N), !.owner = owner, !.pc = "entered", !.old = old,
                                    !.pos_f = [i \in 1..(N * NDim) |-> old],
                                    !.neg_f = [i \in 1..(N * NDim) |-> old],
                                    !.omp_buffer = [n \in 1..N |-> old]]

\* std::fill(pos_f.begin(), pos_f.end(), 0), before the loop
EdgeFill ==
    /\ stage.pc = "entered"
    /\ stage' = [stage EXCEPT !.pos_f = [i \in 1..Len(stage.pos_f) |-> 0], !.pc = "edge"]
    /\ UNCHANGED <<input, phase, error, status, x, mass, cfg, Y, frame, entry, used, oracle, tree, interp, reduction, search, tsne, codec>>

\* iteration n of the loop of compute_edge_forces, run by the worker it was dealt to
EdgeIteration(w) ==
    /\ stage.pc = "edge"
    /\ \E n \in 1..stage.N :
         /\ stage.owner[n] = w
         /\ n \notin stage.done
         /\ stage' = [stage EXCEPT !.pos_f = Accumulated(stage.pos_f, [d \in 1..NDim |-> pos_out(n, d)], stage.Y, n),
                                   !.done = @ \cup {n},
                                   !.log = @ \cup EdgeAccesses(n)]
    /\ UNCHANGED <<input, phase, error, status, x, mass, cfg, Y, frame, entry, used, oracle, tree, interp, reduction, search, tsne, codec>>

\* the end of the first loop, then std::fill(neg_f.begin(), neg_f.end(), 0)
NegFill ==
    /\ stage.pc = "edge"
    /\ stage.done = 1..stage.N
    /\ stage' = [stage EXCEPT !.neg_f = [i \in 1..Len(stage.neg_f) |-> 0], !.pc = "tree",
                              !.done = {}]
    /\ UNCHANGED <<input, phase, error, status, x, mass, cfg, Y, frame, entry, used, oracle, tree, interp, reduction, search, tsne, codec>>

\* omp_buffer[n] = tree.compute_non_edge_forces(n, theta, neg_f.data() + n * ndim)
TreeIteration(w) ==
    /\ stage.pc = "tree"
    /\ \E n \in 1..stage.N :
         /\ stage.owner[n] = w
         /\ n \notin stage.done
         /\ stage' = [stage EXCEPT !.neg_f = Accumulated(stage.neg_f, [d \in 1..NDim |-> neg_out(n, d)], stage.Y, n),
                                   !.omp_buffer[n] = Cardinality(cur_col(stage.N, n)),
                                   !.done = @ \cup {n},
                                   !.log = @ \cup TreeAccesses(n)]
    /\ UNCHANGED <<input, phase, error, status, x, mass, cfg, Y, frame, entry, used, oracle, tree, interp, reduction, search, tsne, codec>>

\* the end of the second loop
StagesDone ==
    /\ stage.pc = "tree"
    /\ stage.done = 1..stage.N
    /\ stage' = [stage EXCEPT !.pc = "done"]
    /\ UNCHANGED <<input, phase, error, status, x, mass, cfg, Y, frame, entry, used, oracle, tree, interp, reduction, search, tsne, codec>>

NextStage ==
    \/ EdgeFill
    \/ \E w \in 1..MaxWorkers : EdgeIteration(w)
    \/ NegFill
    \/ \E w \in 1..MaxWorkers : TreeIteration(w)
    \/ StagesDone

SpecStage == InitStage /\ [][NextStage]_vars

\* the slots of point n in an array of N * ndim
OwnSlots(n) == {(n - 1) * NDim + d : d \in 1..NDim}

\* the accumulator of a stage
AccumulatorOf(st) == IF st = "edge" THEN "pos_f" ELSE "neg_f"

\* C24: in the parallel attractive-force and repulsive-force stages the
\* worker handling point n writes only the ndim slots of n in pos_f or neg_f
\* and buffer slot n, and reads, besides the slots it accumulates in, only
\* Y, P and the tree; no two iterations write the same location, none writes
\* a location another reads, and both accumulators are zero before their
\* stage, so that what they hold afterwards owes nothing to the iteration
\* before.
C24_DisjointWritesAndReset ==
    /\ \A e \in stage.log :
          /\ e.kind = "write" =>
                \/ e.loc[1] = AccumulatorOf(e.stage) /\ e.loc[2] \in OwnSlots(e.n)
                \/ e.stage = "tree" /\ e.loc = <<"omp_buffer", e.n>>
          /\ e.kind = "read" =>
                \/ e.loc[1] \in {"Y", "P", "tree"}
                \/ e.loc[1] = AccumulatorOf(e.stage) /\ e.loc[2] \in OwnSlots(e.n)
    /\ \A e, f \in stage.log :
          (e.stage = f.stage /\ e.n # f.n /\ e.loc = f.loc) => (e.kind = "read" /\ f.kind = "read")
    /\ \A n \in 1..stage.N : \A d \in 1..NDim :
          LET slot == (n - 1) * NDim + d
              fresh == EdgeForce(stage.Y, n, d)
          IN  /\ stage.pc = "edge" => stage.pos_f[slot] = IF n \in stage.done THEN fresh ELSE 0
              /\ stage.pc \in {"tree", "done"} => stage.pos_f[slot] = fresh
              /\ stage.pc = "tree" => stage.neg_f[slot] = IF n \in stage.done THEN fresh ELSE 0
              /\ stage.pc = "done" => stage.neg_f[slot] = fresh

\* both stages over, MaxN points dealt to more than one worker, the buffers
\* entered with what an earlier iteration left in them
C24_Witness ==
    /\ stage.pc = "done"
    /\ stage.N = MaxN
    /\ stage.old # 0
    /\ \E n, m \in 1..stage.N : stage.owner[n] # stage.owner[m]
    /\ \E e \in stage.log : e.kind = "write" /\ e.loc[1] = "omp_buffer"
    /\ \E i \in 1..Len(stage.pos_f) : stage.pos_f[i] # 0
    /\ \E i \in 1..Len(stage.neg_f) : stage.neg_f[i] # 0

\* the waypoints after the first k points of the discovery pass
DiscoveredUpTo(call, k) ==
    LET lim == Limits(call.Y, call.ndim)
    IN  Discover(<<>>, SubSeq(call.Y, 1, k), 1, lim.mins, Step(lim, call.ndim), call.intervals)

\* the cells of the first k points
CellsUpTo(call, k) ==
    LET lim == Limits(call.Y, call.ndim)
    IN  {encode(call.Y[i], lim.mins, Step(lim, call.ndim), call.intervals) : i \in 1..k}

\* the hashes of the 2^ndim vertices of the cell current
CornersOf(current, intervals) ==
    {hash([d \in 1..Len(current) |-> current[d] + b[d]], intervals) :
        b \in [1..Len(current) -> {0, 1}]}

\* C25: after the discovery pass of the interpolator the cell of every point,
\* its indices in 0..I-1, is recorded as an anchor (value 0) and all 2^ndim
\* vertices of that cell are recorded as waypoints; the cell of a point is
\* still an anchor after every later point of the pass; so the lookups of the
\* vertices of every anchor cell and of the cell of every point find an entry.
C25_AnchorsAndCorners ==
    interp.pc \in {"returned", "thrown"} =>
        /\ \A current \in CellsUpTo(interp, Len(interp.Y)) :
              /\ \A d \in 1..interp.ndim : current[d] \in 0..(interp.intervals - 1)
              /\ hash(current, interp.intervals) \in DOMAIN interp.waypoints
              /\ interp.waypoints[hash(current, interp.intervals)] = 0
              /\ CornersOf(current, interp.intervals) \subseteq DOMAIN interp.waypoints
        /\ \A h \in DOMAIN interp.waypoints :
              interp.waypoints[h] = 0 =>
                  CornersOf(unhash(h, interp.intervals, interp.ndim), interp.intervals)
                      \subseteq DOMAIN interp.waypoints
        /\ \A k \in 1..(Len(interp.Y) - 1) :
              \A after \in {DiscoveredUpTo(interp, k)} :
                  \A current \in CellsUpTo(interp, k) :
                      /\ hash(current, interp.intervals) \in DOMAIN after
                      /\ after[hash(current, interp.intervals)] = 0

\* two points in two cells, the cell of the first a vertex of the cell of the
\* second, and a vertex that is the cell of no point
C25_Witness ==
    /\ interp.pc = "returned"
    /\ Len(interp.Y) = MaxPts
    /\ LET lim == Limits(interp.Y, interp.ndim)
           step == Step(lim, interp.ndim)
           first == encode(interp.Y[1], lim.mins, step, interp.intervals)
           second == encode(interp.Y[2], lim.mins, step, interp.intervals)
       IN  /\ first # second
           /\ hash(first, interp.intervals) \in CornersOf(second, interp.intervals)
    /\ \E h \in DOMAIN interp.waypoints : interp.waypoints[h] = MissingWaypoint

\* C26: in the second pass of the interpolator every anchor cell gets a
\* distinct block index in 0..M-1, M the number of anchor cells, and every
\* waypoint a distinct index in 0..W-1; hence every offset used when the
\* interpolants are filled and when they are evaluated lies inside the array
\* of M blocks (and every slot of collected read inside its W entries).
C26_BlockIndices ==
    interp.pc = "returned" =>
        LET anchors == {h \in DOMAIN interp.waypoints : interp.waypoints[h] = 0}
            M == Cardinality(anchors)
            W == Cardinality(DOMAIN interp.waypoints)
        IN  /\ DOMAIN interp.has_zero = anchors
            /\ {interp.has_zero[h] : h \in anchors} = 0..(M - 1)
            /\ DOMAIN interp.numbered = DOMAIN interp.waypoints
            /\ {interp.numbered[h] : h \in DOMAIN interp.numbered} = 0..(W - 1)
            /\ interp.interpolants = M * blocksize
            /\ interp.filled = 0..(interp.interpolants - 1)
            /\ interp.evaluated \subseteq interp.filled
            /\ interp.collected \subseteq 0..(nvalues * W - 1)

\* several anchors among more waypoints, met in an order that is not that of
\* their hashes
C26_Witness ==
    /\ interp.pc = "returned"
    /\ Cardinality(DOMAIN interp.has_zero) > 1
    /\ Cardinality(DOMAIN interp.numbered) > Cardinality(DOMAIN interp.has_zero)
    /\ \E h, k \in DOMAIN interp.has_zero : h < k /\ interp.has_zero[h] > interp.has_zero[k]
    /\ interp.evaluated # {}

(***************************************************************************)
(* The parameters of a Tsne object and their setters.  A parameter that    *)
(* is a whole number is that number, another one a fraction <<n, d>>.      *)
(***************************************************************************)
Defaults ==
    [perplexity |-> 30, theta |-> <<1, 2>>, max_iter |-> 1000, stop_lying_iter |-> 250,
     mom_switch_iter |-> 250, start_momentum |-> <<1, 2>>, final_momentum |-> <<4, 5>>,
     eta |-> 200, exaggeration_factor |-> 12, max_depth |-> 7]

Setters == DOMAIN Defaults

\* the default argument in the declaration of the setter of each parameter
DefaultArgument ==
    [perplexity |-> Defaults.perplexity, theta |-> Defaults.theta,
     max_iter |-> Defaults.max_iter, stop_lying_iter |-> Defaults.stop_lying_iter,
     mom_switch_iter |-> Defaults.mom_switch_iter,
     start_momentum |-> Defaults.start_momentum,
     final_momentum |-> Defaults.final_momentum,
     eta |-> Defaults.eta, exaggeration_factor |-> Defaults.eta,
     max_depth |-> Defaults.max_depth]

\* an argument other than the default, for each setter
OtherArgument ==
    [perplexity |-> 10, theta |-> <<1, 4>>, max_iter |-> 500, stop_lying_iter |-> 100,
     mom_switch_iter |-> 100, start_momentum |-> <<1, 4>>, final_momentum |-> <<9, 10>>,
     eta |-> 100, exaggeration_factor |-> 4, max_depth |-> 20]

\* a freshly constructed Tsne: the default member initializers
InitConfig ==
    /\ input = RingInput
    /\ phase = "start"
    /\ error = "none"
    /\ status = NoStatus
    /\ x = <<>>
    /\ mass = NoMass
    /\ cfg = BaseCfg
    /\ Y = <<>>
    /\ frame = IdleFrame
    /\ entry = NoEntry
    /\ used = NoneUsed
    /\ codec = NoCodec
    /\ search = NoSearch
    /\ interp = NoInterp
    /\ oracle = NoOracle
    /\ tree = NoTree
    /\ reduction = NoReduction
    /\ stage = NoStage
    /\ tsne = [members |-> Defaults, last |-> "none", omitted |-> FALSE]

\* set_<parameter>(value)
SetterWithArgument ==
    /\ \E s \in Setters :
          tsne' = [members |-> [tsne.members EXCEPT ![s] = OtherArgument[s]],
                   last |-> s, omitted |-> FALSE]
    /\ UNCHANGED <<input, phase, error, status, x, mass, cfg, Y, frame, entry, used, oracle, tree, interp, reduction, search, stage, codec>>

\* set_<parameter>(): the default argument is passed
SetterWithoutArgument ==
    /\ \E s \in Setters :
          tsne' = [members |-> [tsne.members EXCEPT ![s] = DefaultArgument[s]],
                   last |-> s, omitted |-> TRUE]
    /\ UNCHANGED <<input, phase, error, status, x, mass, cfg, Y, frame, entry, used, oracle, tree, interp, reduction, search, stage, codec>>

NextConfig == SetterWithArgument \/ SetterWithoutArgument

SpecConfig == InitConfig /\ [][NextConfig]_vars

\* C27: a setter called with no argument leaves its parameter at the value
\* of the default schedule, the one a freshly constructed Tsne uses; in
\* particular set_exaggeration_factor() leaves the exaggeration factor at 12.
C27_SettersRestoreDefaults ==
    (tsne.last # "none" /\ tsne.omitted) => tsne.members[tsne.last] = Defaults[tsne.last]

(***************************************************************************)
(* hash and unhash on their own: two index vectors of the lattice, their   *)
(* components in 0..intervals (cells and the vertices above them), hashed, *)
(* and the first one recovered from its hash.                              *)
(***************************************************************************)
MaxIntervals == 3

InitCodec ==
    /\ input = RingInput
    /\ phase = "start"
    /\ error = "none"
    /\ status = NoStatus
    /\ x = <<>>
    /\ mass = NoMass
    /\ cfg = BaseCfg
    /\ Y = <<>>
    /\ frame = IdleFrame
    /\ entry = NoEntry
    /\ used = NoneUsed
    /\ search = NoSearch
    /\ interp = NoInterp
    /\ oracle = NoOracle
    /\ tree = NoTree
    /\ reduction = NoReduction
    /\ stage = NoStage
    /\ tsne = NoTsne
    /\ \E ndim \in InterpDims, intervals \in 1..MaxIntervals :
         \E a, b \in [1..ndim -> 0..intervals] :
            codec = [NoCodec EXCEPT !.a = a, !.b = b, !.intervals = intervals, !.pc = "drawn"]

\* size_t h = hash<ndim>(x, intervals)
HashIndices ==
    /\ codec.pc = "drawn"
    /\ codec' = [codec EXCEPT !.ha = hash(codec.a, codec.intervals),
                              !.hb = hash(codec.b, codec.intervals), !.pc = "hashed"]
    /\ UNCHANGED <<input, phase, error, status, x, mass, cfg, Y, frame, entry, used, oracle, tree, interp, reduction, search, stage, tsne>>

\* auto current = unhash<ndim>(y.first, intervals)
UnhashIndex ==
    /\ codec.pc = "hashed"
    /\ codec' = [codec EXCEPT !.back = unhash(codec.ha, codec.intervals, Len(codec.a)),
                              !.pc = "unhashed"]
    /\ UNCHANGED <<input, phase, error, status, x, mass, cfg, Y, frame, entry, used, oracle, tree, interp, reduction, search, stage, tsne>>

NextCodec == HashIndices \/ UnhashIndex

SpecCodec == InitCodec /\ [][NextCodec]_vars

\* C28: for every lattice index vector with components in 0..I,
\* unhash(hash(index, I), I) = index; hence two distinct index vectors (cells
\* or vertices) have distinct hashes and never share a waypoint entry.
C28_UnhashInvertsHash ==
    /\ codec.pc = "unhashed" => codec.back = codec.a
    /\ codec.pc \in {"hashed", "unhashed"} => (codec.ha = codec.hb => codec.a = codec.b)

\* a vertex on the upper edge of the lattice in every dimension, recovered,
\* next to a different vector that differs from it in the first dimension only
C28_Witness ==
    /\ codec.pc = "unhashed"
    /\ codec.intervals = MaxIntervals
    /\ Len(codec.a) > 1
    /\ \A d \in 1..Len(codec.a) : codec.a[d] = codec.intervals
    /\ codec.b[1] = 0
    /\ \A d \in 2..Len(codec.b) : codec.b[d] = codec.a[d]
    /\ codec.back = codec.a

=============================================================================
